---- MODULE Spec2Model ----
(***************************************************************************)
(* Order routing and concurrent dispatch of the multi-broker router:       *)
(* route_place_orders (MultiBroker_Router.py) expands one request into     *)
(* per-client rows, buckets them by broker and calls each broker module's  *)
(* place_orders, which runs one thread per row and joins them.             *)
(*                                                                         *)
(* Strings the code inspects character by character (order types) are     *)
(* sequences of one-character strings; result keys are sequences of the    *)
(* pieces the f-string joins.                                              *)
(***************************************************************************)
EXTENDS Integers, Sequences, FiniteSets, TLC

\* Longest client list of a request with the plain order.
MaxTargets == 2

\* Longest group list of a request with the plain order.
MaxGroups == 1

\* Longest client list / group list of a request whose order fields vary.
MaxVaried == 1

\* Most rows of a modify request of plain rows.
MaxModifyRows == 2

-----------------------------------------------------------------------------
(* Strings *)

UpperTable ==
    ("a" :> "A") @@ ("b" :> "B") @@ ("c" :> "C") @@ ("d" :> "D") @@ ("e" :> "E") @@ ("f" :> "F") @@ ("g" :> "G") @@ ("h" :> "H") @@ ("i" :> "I") @@ ("j" :> "J") @@ ("k" :> "K") @@ ("l" :> "L") @@ ("m" :> "M")
    @@ ("n" :> "N") @@ ("o" :> "O") @@ ("p" :> "P") @@ ("q" :> "Q") @@ ("r" :> "R") @@ ("s" :> "S") @@ ("t" :> "T") @@ ("u" :> "U") @@ ("v" :> "V") @@ ("w" :> "W") @@ ("x" :> "X") @@ ("y" :> "Y") @@ ("z" :> "Z")

UpperChar(c) == IF c \in DOMAIN UpperTable THEN UpperTable[c] ELSE c

\* str.upper()
Upper(s) == [i \in 1..Len(s) |-> UpperChar(s[i])]

\* str.replace(a, b) for one-character a and b
ReplaceChar(s, a, b) == [i \in 1..Len(s) |-> IF s[i] = a THEN b ELSE s[i]]

RECURSIVE LStrip(_)
LStrip(s) == IF s # <<>> /\ Head(s) = " " THEN LStrip(Tail(s)) ELSE s

RECURSIVE RStrip(_)
RStrip(s) ==
    IF s # <<>> /\ s[Len(s)] = " " THEN RStrip(SubSeq(s, 1, Len(s) - 1)) ELSE s

\* str.strip()
Strip(s) == RStrip(LStrip(s))

\* sub in s
Contains(sub, s) ==
    \E i \in 0..(Len(s) - Len(sub)) : SubSeq(s, i + 1, i + Len(sub)) = sub

s_LIMIT    == <<"L", "I", "M", "I", "T">>
s_MARKET   == <<"M", "A", "R", "K", "E", "T">>
s_SL       == <<"S", "L">>
s_STOPLOSS == <<"S", "T", "O", "P", "L", "O", "S", "S">>
s_STOP_LOSS == <<"S", "T", "O", "P", "_", "L", "O", "S", "S">>
s_STOP_LOSS_MARKET == <<"S", "T", "O", "P", "_", "L", "O", "S", "S", "_", "M", "A", "R", "K", "E", "T">>

-----------------------------------------------------------------------------
(* Broker_dhan.py: order-type helpers *)

\* The dict m of _norm_order_type, as <<key, value>> pairs.
NormTable ==
    { <<<<"L", "I", "M", "I", "T">>, <<"L", "I", "M", "I", "T">>>>,
       <<<<"L", "M", "T">>, <<"L", "I", "M", "I", "T">>>>,
       <<<<"M", "A", "R", "K", "E", "T">>, <<"M", "A", "R", "K", "E", "T">>>>,
       <<<<"M", "K", "T">>, <<"M", "A", "R", "K", "E", "T">>>>,
       <<<<"S", "T", "O", "P", "L", "O", "S", "S">>, <<"S", "T", "O", "P", "_", "L", "O", "S", "S">>>>,
       <<<<"S", "T", "O", "P", "_", "L", "O", "S", "S">>, <<"S", "T", "O", "P", "_", "L", "O", "S", "S">>>>,
       <<<<"S", "T", "O", "P", "_", "L", "O", "S", "S", "_", "L", "I", "M", "I", "T">>, <<"S", "T", "O", "P", "_", "L", "O", "S", "S">>>>,
       <<<<"S", "L">>, <<"S", "T", "O", "P", "_", "L", "O", "S", "S">>>>,
       <<<<"S", "L", "_", "L", "I", "M", "I", "T">>, <<"S", "T", "O", "P", "_", "L", "O", "S", "S">>>>,
       <<<<"S", "L", "M">>, <<"S", "T", "O", "P", "_", "L", "O", "S", "S", "_", "M", "A", "R", "K", "E", "T">>>>,
       <<<<"S", "L", "_", "M">>, <<"S", "T", "O", "P", "_", "L", "O", "S", "S", "_", "M", "A", "R", "K", "E", "T">>>>,
       <<<<"S", "L", "_", "M", "A", "R", "K", "E", "T">>, <<"S", "T", "O", "P", "_", "L", "O", "S", "S", "_", "M", "A", "R", "K", "E", "T">>>>,
       <<<<"S", "T", "O", "P", "_", "L", "O", "S", "S", "_", "M", "A", "R", "K", "E", "T">>, <<"S", "T", "O", "P", "_", "L", "O", "S", "S", "_", "M", "A", "R", "K", "E", "T">>>> }

\* _norm_order_type without .upper()
_norm_order_typeCaseSensitive(s) ==
    LET key == ReplaceChar(Strip(s), "-", "_")
        hit == {p \in NormTable : p[1] = key}
    IN  IF hit = {} THEN key ELSE (CHOOSE p \in hit : TRUE)[2]

_norm_order_type(s) ==
    LET key == ReplaceChar(Upper(Strip(s)), "-", "_")
        hit == {p \in NormTable : p[1] = key}
    IN  IF hit = {} THEN key ELSE (CHOOSE p \in hit : TRUE)[2]

\* _needs_price that knows LIMIT only
_needs_priceLimitOnly(ot) == _norm_order_type(ot) = s_LIMIT

_needs_price(ot) == _norm_order_type(ot) \in {s_LIMIT, s_STOP_LOSS}

_needs_trigger(ot) == _norm_order_type(ot) \in {s_STOP_LOSS, s_STOP_LOSS_MARKET}

-----------------------------------------------------------------------------
(* The files the request finds on disk *)

BrokerSet == {"dhan", "motilal"}

\* for brk in ("dhan", "motilal")
BrokerOrder == <<"dhan", "motilal">>

\* clients/dhan/*.json and clients/motilal/*.json, by userid.  D1, D2, M1 and
\* M2 carry their secrets; D0 has an empty access token, M0 lacks the login
\* credentials.  X has no file.
ClientDir(brk) ==
    IF brk = "dhan" THEN {"D0", "D1", "D2"} ELSE {"M0", "M1", "M2"}

ClientIds == ClientDir("dhan") \cup ClientDir("motilal") \cup {"X"}

\* Client files without usable secret material.
NoSecretClients == {"D0", "M0"}

\* Broker_dhan: the apikey/access_token of the client json is non-empty.
\* Broker_motilal: login() finds userid, apikey, password and pan.
HasSecret(uid) == uid \notin NoSecretClients

\* groups/*.json; gX has no file.  g1 lists D1 twice; g2 has a member
\* without a client file.
GroupFiles == {"g1", "g2"}

GroupSel == GroupFiles \cup {"gX"}

GroupMembers(g) ==
    IF g = "g1" THEN <<"D1", "D0", "D1">> ELSE <<"M1", "M0", "X">>

\* _index_clients(): userid -> broker
client_index ==
    [uid \in ClientDir("dhan") \cup ClientDir("motilal") |->
        IF uid \in ClientDir("motilal") THEN "motilal" ELSE "dhan"]

-----------------------------------------------------------------------------
(* The request *)

OrderTypes == {s_MARKET, s_LIMIT, s_SL, s_STOPLOSS}
Prices     == {0, 100}
Triggers   == {0, 90}
\* third component of the symbol string: numeric, not numeric, missing
SecurityIds == {"110666", "abc", ""}

IsNumeric(sid) == sid \in {"110666", "220777", "17000", "18000"}

TargetLists(S, n) == UNION {[1..k -> S] : k \in 0..n}

OrderFields ==
    [ordertype : OrderTypes, price : Prices, triggerprice : Triggers,
     security_id : SecurityIds]

\* A market order on a symbol both brokers know.
PlainOrder ==
    [ordertype |-> s_MARKET, price |-> 0, triggerprice |-> 0,
     security_id |-> "110666"]

RequestsOf(nc, ng, orders) ==
    {[groupacc |-> FALSE, clients |-> cl, groups |-> <<>>, order |-> o] :
        cl \in TargetLists(ClientIds, nc), o \in orders}
    \cup
    {[groupacc |-> TRUE, clients |-> <<>>, groups |-> gl, order |-> o] :
        gl \in TargetLists(GroupSel, ng), o \in orders}

\* Every client list up to MaxTargets and every group list up to MaxGroups
\* with the plain order, and every order with the lists up to MaxVaried.
Requests ==
    RequestsOf(MaxTargets, MaxGroups, {PlainOrder})
    \cup RequestsOf(MaxVaried, MaxVaried, OrderFields)

-----------------------------------------------------------------------------
(* route_place_orders: validation and expansion *)

\* The two HTTPException(400) checks.
RouterRejects(o) ==
    LET ordertype == Upper(o.ordertype)
    IN  \/ ordertype = s_LIMIT /\ o.price <= 0
        \/ Contains(s_SL, ordertype) /\ o.triggerprice <= 0

\* A row carrying "_skip": True; reason is the pieces of the reason string.
SkipRow(reason, client_id) ==
    [skip |-> TRUE, reason |-> reason, client_id |-> client_id,
     broker |-> "", tag |-> "", rid |-> 0]

\* _build_order without the client_not_found exit.
_build_orderNoSkip(client_id, tag) ==
    [skip |-> FALSE, reason |-> <<>>, client_id |-> client_id,
     broker |-> IF client_id \in DOMAIN client_index
                THEN client_index[client_id] ELSE "dhan",
     tag |-> tag, rid |-> 0]

_build_order(client_id, tag) ==
    IF client_id \notin DOMAIN client_index
    THEN SkipRow(<<"client_not_found">>, client_id)
    ELSE [skip |-> FALSE, reason |-> <<>>, client_id |-> client_id,
          broker |-> client_index[client_id], tag |-> tag, rid |-> 0]

RECURSIVE _member_ids(_, _)
_member_ids(raw, out) ==
    IF raw = <<>> THEN out
    ELSE LET uid == Head(raw)
         IN  _member_ids(Tail(raw),
                 IF \E i \in 1..Len(out) : out[i] = uid THEN out
                 ELSE Append(out, uid))

RECURSIVE ExpandGroups(_)
ExpandGroups(groups) ==
    IF groups = <<>> THEN <<>>
    ELSE LET gsel == Head(groups)
             members == _member_ids(GroupMembers(gsel), <<>>)
             rows == IF gsel \notin GroupFiles
                     THEN <<SkipRow(<<"group_file_missing", ":", gsel>>, "")>>
                     ELSE [i \in 1..Len(members) |->
                              _build_order(members[i], gsel)]
         IN  rows \o ExpandGroups(Tail(groups))

ExpandClients(clients) ==
    [i \in 1..Len(clients) |-> _build_order(clients[i], "")]

\* per_client_orders; rid is the row's position, the identity of the dict.
Expand(r) ==
    LET rows == IF r.groupacc THEN ExpandGroups(r.groups)
                ELSE ExpandClients(r.clients)
    IN  [i \in 1..Len(rows) |-> [rows[i] EXCEPT !.rid = i]]

IsSkip(od) == od.skip

\* by_broker[brk]
Bucket(rows, brk) == SelectSeq(rows, LAMBDA od : ~od.skip /\ od.broker = brk)

-----------------------------------------------------------------------------
(* State *)

VARIABLES
    rpc,                \* route_place_orders: idle, recv, dispatch, in_adapter, done, http400
    req,                \* the request body
    cur,                \* position of the dispatch loop in BrokerOrder
    per_client_orders,  \* the expanded rows
    skipped,            \* results["skipped"]
    by_broker,          \* broker -> rows, the list handed to the adapter
    results,            \* broker -> "none" | "completed" | "error"; order_responses is responses[brk]
    apc,                \* broker -> place_orders: idle, spawn, join, returned
    by_id,              \* broker -> userids the adapter's _read_clients() found
    started,            \* broker -> threads started
    joined,             \* broker -> threads joined
    wpc,                \* broker -> worker -> ready, login, build, call, store, locked, done, dead
    pend,               \* broker -> worker -> the entry the worker is about to store
    bresp,              \* broker -> worker -> outcome of its place-order call, or "none"
    lock,               \* broker -> 0 (free) or the worker holding the batch's lock
    responses,          \* broker -> key -> entry
    sessions,           \* Broker_motilal._sessions: userids with an SDK session
    placed,             \* broker -> rid -> place-order calls the backend received
    sessReaders,        \* Motilal workers of this batch that read _sessions
    sessWriters,        \* Motilal workers of this batch that wrote _sessions
    mpc,                \* route_modify_order: idle, recv, dispatch, in_adapter, done, http400, http500
    mreq,               \* the orders of the modify request, each with the live order it names
    mcur,               \* position of the modify dispatch in BrokerOrder
    mod_by_broker,      \* route_modify_order's by_broker
    messages,           \* route_modify_order's messages
    adapter_messages,   \* modify_orders' messages
    mrow,               \* the row modify_orders is at
    sent,               \* the modify calls the backends received
    qpc,                \* route_place_orders' quantity steps: idle, recv, expanded, bucketed, converted, sent
    qreq,               \* the request body with its quantity fields
    qrows,              \* per_client_orders, each row with its qty
    qby_broker,         \* by_broker, each row with its qty
    dhan_quantity,      \* the "quantity" of each payload Broker_dhan's workers built
    ppc,                \* a helper function's call: idle, called, returned
    fn_arg,             \* the arguments of the call
    fn_ret              \* what the call returned

placeVars ==
    <<rpc, req, cur, per_client_orders, skipped, by_broker, results, apc, by_id,
      started, joined, wpc, pend, bresp, lock, responses, sessions, placed,
      sessReaders, sessWriters>>

modVars ==
    <<mpc, mreq, mcur, mod_by_broker, messages, adapter_messages, mrow, sent>>

extVars == <<qpc, qreq, qrows, qby_broker, dhan_quantity, ppc, fn_arg, fn_ret>>

vars == <<placeVars, modVars, extVars>>

routerVars == <<rpc, req, cur, per_client_orders, skipped, by_broker, results>>
mainVars   == <<apc, by_id, started, joined>>

\* No modify request is in progress.
ModIdle ==
    /\ mpc = "idle"
    /\ mreq = <<>>
    /\ mcur = 1
    /\ mod_by_broker = [b \in BrokerSet |-> <<>>]
    /\ messages = <<>>
    /\ adapter_messages = <<>>
    /\ mrow = 1
    /\ sent = <<>>

\* No quantity expansion is in progress.
QtyIdle ==
    /\ qpc = "idle"
    /\ qreq = <<>>
    /\ qrows = <<>>
    /\ qby_broker = <<>>
    /\ dhan_quantity = <<>>

\* No helper call is in progress.
PureIdle ==
    /\ ppc = "idle"
    /\ fn_arg = <<>>
    /\ fn_ret = <<>>

ExtIdle == QtyIdle /\ PureIdle

NoEntry == [status |-> "", message |-> "", ref |-> 0]

Err(msg) == [status |-> "ERROR", message |-> msg, ref |-> 0]

Terminated == {"done", "dead"}

Init ==
    /\ rpc = "recv"
    /\ req \in Requests
    /\ cur = 1
    /\ per_client_orders = <<>>
    /\ skipped = <<>>
    /\ by_broker = [b \in BrokerSet |-> <<>>]
    /\ results = [b \in BrokerSet |-> "none"]
    /\ apc = [b \in BrokerSet |-> "idle"]
    /\ by_id = [b \in BrokerSet |-> {}]
    /\ started = [b \in BrokerSet |-> 0]
    /\ joined = [b \in BrokerSet |-> 0]
    /\ wpc = [b \in BrokerSet |-> <<>>]
    /\ pend = [b \in BrokerSet |-> <<>>]
    /\ bresp = [b \in BrokerSet |-> <<>>]
    /\ lock = [b \in BrokerSet |-> 0]
    /\ responses = [b \in BrokerSet |-> <<>>]
    /\ sessions = {}
    /\ placed = [b \in BrokerSet |-> <<>>]
    /\ sessReaders = {}
    /\ sessWriters = {}
    /\ ModIdle
    /\ ExtIdle

-----------------------------------------------------------------------------
(* route_place_orders *)

\* raise HTTPException(status_code=400, ...)
R_Reject ==
    /\ rpc = "recv"
    /\ RouterRejects(req.order)
    /\ rpc' = "http400"
    /\ UNCHANGED <<req, cur, per_client_orders, skipped, by_broker, results,
                   apc, by_id, started, joined, wpc, pend, bresp, lock,
                   responses, sessions, placed, sessReaders, sessWriters>>
    /\ UNCHANGED <<modVars, extVars>>

\* Expansion and bucketing, up to the dispatch loop.
R_Expand ==
    /\ rpc = "recv"
    /\ ~RouterRejects(req.order)
    /\ LET rows == Expand(req)
       IN  /\ per_client_orders' = rows
           /\ skipped' = SelectSeq(rows, IsSkip)
           /\ by_broker' = [b \in BrokerSet |-> Bucket(rows, b)]
           /\ placed' = [b \in BrokerSet |-> [i \in 1..Len(rows) |-> 0]]
    /\ rpc' = "dispatch"
    /\ UNCHANGED <<req, cur, results, apc, by_id, started, joined, wpc, pend,
                   bresp, lock, responses, sessions, sessReaders, sessWriters>>
    /\ UNCHANGED <<modVars, extVars>>

\* The loop moves to the next broker, or the handler returns.
Advance ==
    IF cur = Len(BrokerOrder)
    THEN rpc' = "done" /\ cur' = cur
    ELSE rpc' = "dispatch" /\ cur' = cur + 1

\* if not lst: continue
R_SkipBroker(b) ==
    /\ rpc = "dispatch"
    /\ b = BrokerOrder[cur]
    /\ by_broker[b] = <<>>
    /\ Advance
    /\ UNCHANGED <<req, per_client_orders, skipped, by_broker, results, apc,
                   by_id, started, joined, wpc, pend, bresp, lock, responses,
                   sessions, placed, sessReaders, sessWriters>>
    /\ UNCHANGED <<modVars, extVars>>

\* The client files place_orders may find missing: a client file can be
\* deleted between the router's index and the adapter's _read_clients().
Gone(b) ==
    {{}} \cup {{by_broker[b][i].client_id} : i \in 1..Len(by_broker[b])}

\* importlib.reload(mod); fn(lst): place_orders up to the thread loop.
\* Reloading Broker_motilal re-runs "_sessions = {}".
R_CallAdapter(b) ==
    /\ rpc = "dispatch"
    /\ b = BrokerOrder[cur]
    /\ by_broker[b] # <<>>
    /\ rpc' = "in_adapter"
    /\ apc' = [apc EXCEPT ![b] = "spawn"]
    /\ \E gone \in Gone(b) : by_id' = [by_id EXCEPT ![b] = ClientDir(b) \ gone]
    /\ wpc' = [wpc EXCEPT ![b] = [i \in 1..Len(by_broker[b]) |-> "ready"]]
    /\ pend' = [pend EXCEPT ![b] = [i \in 1..Len(by_broker[b]) |-> NoEntry]]
    /\ bresp' = [bresp EXCEPT ![b] = [i \in 1..Len(by_broker[b]) |-> "none"]]
    /\ sessions' = IF b = "motilal" THEN {} ELSE sessions
    /\ UNCHANGED <<req, cur, per_client_orders, skipped, by_broker, results,
                   started, joined, lock, responses, placed, sessReaders,
                   sessWriters>>
    /\ UNCHANGED <<modVars, extVars>>

\* Dispatch to broker b with the exception escaping the handler.
R_AdapterFailsAbort(b) ==
    /\ rpc = "dispatch"
    /\ b = BrokerOrder[cur]
    /\ by_broker[b] # <<>>
    /\ rpc' = "http500"
    /\ UNCHANGED <<req, cur, per_client_orders, skipped, by_broker, results,
                   apc, by_id, started, joined, wpc, pend, bresp, lock,
                   responses, sessions, placed, sessReaders, sessWriters>>
    /\ UNCHANGED <<modVars, extVars>>

\* import_module / reload / fn(lst) raises, or the module has no callable
\* place_orders: res = {"status": "error", ...}; results[brk] = res and the
\* loop goes on.
R_AdapterFails(b) ==
    /\ rpc = "dispatch"
    /\ b = BrokerOrder[cur]
    /\ by_broker[b] # <<>>
    /\ results' = [results EXCEPT ![b] = "error"]
    /\ Advance
    /\ UNCHANGED <<req, per_client_orders, skipped, by_broker, apc, by_id,
                   started, joined, wpc, pend, bresp, lock, responses,
                   sessions, placed, sessReaders, sessWriters>>
    /\ UNCHANGED <<modVars, extVars>>

-----------------------------------------------------------------------------
(* place_orders of either adapter: the thread loops *)

\* t = threading.Thread(...); t.start(); threads.append(t)
A_Spawn(b) ==
    /\ apc[b] = "spawn"
    /\ started' = [started EXCEPT ![b] = @ + 1]
    /\ apc' = [apc EXCEPT ![b] =
                  IF started[b] + 1 = Len(by_broker[b]) THEN "join" ELSE "spawn"]
    /\ UNCHANGED <<routerVars, by_id, joined, wpc, pend, bresp, lock,
                   responses, sessions, placed, sessReaders, sessWriters>>
    /\ UNCHANGED <<modVars, extVars>>

\* A join that returns as soon as any thread of the batch has terminated.
JoinReturnsFirst(b, t) == \E u \in 1..Len(by_broker[b]) : wpc[b][u] \in Terminated

\* t.join() returns once thread t has terminated.
JoinReturns(b, t) == wpc[b][t] \in Terminated

\* for t in threads: t.join()
A_Join(b) ==
    /\ apc[b] = "join"
    /\ joined[b] < Len(by_broker[b])
    /\ JoinReturns(b, joined[b] + 1)
    /\ joined' = [joined EXCEPT ![b] = @ + 1]
    /\ UNCHANGED <<routerVars, apc, by_id, started, wpc, pend, bresp, lock,
                   responses, sessions, placed, sessReaders, sessWriters>>
    /\ UNCHANGED <<modVars, extVars>>

\* return {"status": "completed", "order_responses": responses};
\* the router stores it as results[brk].
A_Return(b) ==
    /\ apc[b] = "join"
    /\ joined[b] = Len(by_broker[b])
    /\ rpc = "in_adapter"
    /\ apc' = [apc EXCEPT ![b] = "returned"]
    /\ results' = [results EXCEPT ![b] = "completed"]
    /\ Advance
    /\ UNCHANGED <<req, per_client_orders, skipped, by_broker, by_id, started,
                   joined, wpc, pend, bresp, lock, responses, sessions, placed,
                   sessReaders, sessWriters>>
    /\ UNCHANGED <<modVars, extVars>>

-----------------------------------------------------------------------------
(* place_orders._worker: what both adapters share *)

Workers(b) == 1..Len(by_broker[b])

Running(b, i) == i <= started[b]

\* key = f"{tag}:{uid}" if tag else uid        (Broker_dhan)
\* key = f"{od.get('tag') or ''}:{uid}"        (Broker_motilal)
Key(b, od) ==
    IF b = "dhan"
    THEN IF od.tag # "" THEN <<od.tag, ":", od.client_id>> ELSE <<od.client_id>>
    ELSE <<od.tag, ":", od.client_id>>

\* The worker's early exits: remember the entry, go and store it.
Bail(b, i, msg) ==
    /\ pend' = [pend EXCEPT ![b][i] = Err(msg)]
    /\ wpc' = [wpc EXCEPT ![b][i] = "store"]

\* A lock that never blocks.
LockFreeAlways(b) == TRUE

\* threading.Lock: acquire() succeeds only on a free lock.
LockFree(b) == lock[b] = 0

\* with lock:
W_Acquire(b, i) ==
    /\ Running(b, i)
    /\ wpc[b][i] = "store"
    /\ LockFree(b)
    /\ lock' = [lock EXCEPT ![b] = i]
    /\ wpc' = [wpc EXCEPT ![b][i] = "locked"]
    /\ UNCHANGED <<routerVars, mainVars, pend, bresp, responses, sessions,
                   placed, sessReaders, sessWriters>>
    /\ UNCHANGED <<modVars, extVars>>

\* responses[key] = ...; leaving the with block releases the lock.
W_Write(b, i) ==
    /\ Running(b, i)
    /\ wpc[b][i] = "locked"
    /\ responses' = [responses EXCEPT ![b] =
                        (Key(b, by_broker[b][i]) :> pend[b][i]) @@ @]
    /\ lock' = [lock EXCEPT ![b] = 0]
    /\ wpc' = [wpc EXCEPT ![b][i] = "done"]
    /\ UNCHANGED <<routerVars, mainVars, pend, bresp, sessions, placed,
                   sessReaders, sessWriters>>
    /\ UNCHANGED <<modVars, extVars>>

\* One place-order call reaches the backend of broker b for row od.
Send(b, od) == placed' = [placed EXCEPT ![b][od.rid] = @ + 1]

-----------------------------------------------------------------------------
(* Broker_dhan.place_orders._worker *)

\* requests.post(...) raises, answers JSON, or answers text that is not JSON
DhanOutcomes == {"raise", "json", "text"}

\* resp as the worker stores it; the backend's answer names the order (ref).
DhanResp(out, od) ==
    CASE out = "raise" -> Err("exception")
      [] out = "json"  -> [status |-> "success", message |-> "", ref |-> od.rid]
      [] out = "text"  -> [status |-> "_raw", message |-> "", ref |-> od.rid]

\* DhanPrecheck without the access-token check.
DhanPrecheckNoToken(od, o, known) ==
    LET ordertype == _norm_order_type(o.ordertype)
    IN  IF od.client_id \notin known THEN "Client JSON not found"
        ELSE IF o.security_id = "" THEN "Missing securityId for Dhan"
        ELSE IF _needs_price(ordertype) /\ o.price <= 0
             THEN "Order requires price > 0"
        ELSE IF _needs_trigger(ordertype) /\ o.triggerprice <= 0
             THEN "Order requires triggerPrice > 0"
        ELSE ""

\* The checks before the payload is built: the message of the first that
\* fails, or "".
DhanPrecheck(od, o, known) ==
    LET ordertype == _norm_order_type(o.ordertype)
    IN  IF od.client_id \notin known THEN "Client JSON not found"
        ELSE IF ~HasSecret(od.client_id) THEN "Missing access token"
        ELSE IF o.security_id = "" THEN "Missing securityId for Dhan"
        ELSE IF _needs_price(ordertype) /\ o.price <= 0
             THEN "Order requires price > 0"
        ELSE IF _needs_trigger(ordertype) /\ o.triggerprice <= 0
             THEN "Order requires triggerPrice > 0"
        ELSE ""

D_Prepare(i) ==
    /\ Running("dhan", i)
    /\ wpc["dhan"][i] = "ready"
    /\ LET msg == DhanPrecheck(by_broker["dhan"][i], req.order, by_id["dhan"])
       IN  IF msg # ""
           THEN Bail("dhan", i, msg)
           ELSE /\ wpc' = [wpc EXCEPT !["dhan"][i] = "call"]
                /\ pend' = pend
    /\ UNCHANGED <<routerVars, mainVars, bresp, lock, responses, sessions,
                   placed, sessReaders, sessWriters>>
    /\ UNCHANGED <<modVars, extVars>>

\* D_Call with the call outside the try: an exception ends the thread.
D_CallUncaught(i) ==
    /\ Running("dhan", i)
    /\ wpc["dhan"][i] = "call"
    /\ \E out \in DhanOutcomes :
          /\ bresp' = [bresp EXCEPT !["dhan"][i] = out]
          /\ IF out = "raise"
             THEN /\ pend' = pend
                  /\ wpc' = [wpc EXCEPT !["dhan"][i] = "dead"]
             ELSE /\ pend' = [pend EXCEPT !["dhan"][i] =
                                 DhanResp(out, by_broker["dhan"][i])]
                  /\ wpc' = [wpc EXCEPT !["dhan"][i] = "store"]
    /\ Send("dhan", by_broker["dhan"][i])
    /\ UNCHANGED <<routerVars, mainVars, lock, responses, sessions,
                   sessReaders, sessWriters>>
    /\ UNCHANGED <<modVars, extVars>>

\* D_Call that sends the order again after a first exception.
D_CallRetry(i) ==
    /\ Running("dhan", i)
    /\ wpc["dhan"][i] = "call"
    /\ \E out \in DhanOutcomes :
          /\ bresp' = [bresp EXCEPT !["dhan"][i] = out]
          /\ pend' = [pend EXCEPT !["dhan"][i] =
                         DhanResp(out, by_broker["dhan"][i])]
          /\ wpc' = [wpc EXCEPT !["dhan"][i] =
                        IF out = "raise" /\ bresp["dhan"][i] = "none"
                        THEN "call" ELSE "store"]
    /\ Send("dhan", by_broker["dhan"][i])
    /\ UNCHANGED <<routerVars, mainVars, lock, responses, sessions,
                   sessReaders, sessWriters>>
    /\ UNCHANGED <<modVars, extVars>>

\* requests.post(..., timeout=15) inside try/except
D_Call(i) ==
    /\ Running("dhan", i)
    /\ wpc["dhan"][i] = "call"
    /\ \E out \in DhanOutcomes :
          /\ bresp' = [bresp EXCEPT !["dhan"][i] = out]
          /\ pend' = [pend EXCEPT !["dhan"][i] =
                         DhanResp(out, by_broker["dhan"][i])]
    /\ Send("dhan", by_broker["dhan"][i])
    /\ wpc' = [wpc EXCEPT !["dhan"][i] = "store"]
    /\ UNCHANGED <<routerVars, mainVars, lock, responses, sessions,
                   sessReaders, sessWriters>>
    /\ UNCHANGED <<modVars, extVars>>

-----------------------------------------------------------------------------
(* Broker_motilal.place_orders._worker *)

\* sdk.PlaceOrder(payload) raises or answers
MoOutcomes == {"raise", "answer"}

MoResp(out, od) ==
    CASE out = "raise"  -> Err("exception")
      [] out = "answer" -> [status |-> "SUCCESS", message |-> "", ref |-> od.rid]

\* by_id.get(uid), then _ensure_session(cj): _sessions.get(uid), and inside
\* login() the test "userid in _sessions" and the credentials check.
M_Lookup(i) ==
    /\ Running("motilal", i)
    /\ wpc["motilal"][i] = "ready"
    /\ LET uid == by_broker["motilal"][i].client_id
       IN  IF uid \notin by_id["motilal"]
           THEN /\ Bail("motilal", i, "Client JSON not found")
                /\ sessReaders' = sessReaders
           ELSE /\ sessReaders' = sessReaders \cup {i}
                /\ IF uid \in sessions
                   THEN /\ wpc' = [wpc EXCEPT !["motilal"][i] = "build"]
                        /\ pend' = pend
                   ELSE IF ~HasSecret(uid)
                   THEN Bail("motilal", i, "Session not found")
                   ELSE /\ wpc' = [wpc EXCEPT !["motilal"][i] = "login"]
                        /\ pend' = pend
    /\ UNCHANGED <<routerVars, mainVars, bresp, lock, responses, sessions,
                   placed, sessWriters>>
    /\ UNCHANGED <<modVars, extVars>>

\* sdk.login(...) returns: on SUCCESS login() stores the session in
\* _sessions, otherwise (failure or exception) it returns False.
M_LoginReturn(i) ==
    /\ Running("motilal", i)
    /\ wpc["motilal"][i] = "login"
    /\ \E ok \in BOOLEAN :
          IF ok
          THEN /\ sessions' = sessions \cup {by_broker["motilal"][i].client_id}
               /\ sessWriters' = sessWriters \cup {i}
               /\ wpc' = [wpc EXCEPT !["motilal"][i] = "build"]
               /\ pend' = pend
          ELSE /\ Bail("motilal", i, "Session not found")
               /\ UNCHANGED <<sessions, sessWriters>>
    /\ UNCHANGED <<routerVars, mainVars, bresp, lock, responses, placed,
                   sessReaders>>
    /\ UNCHANGED <<modVars, extVars>>

\* int(od.get("security_id") or 0) raises ValueError on text that is no number
PayloadRaises(o) == o.security_id # "" /\ ~IsNumeric(o.security_id)

\* The payload dict is built outside any try: an exception ends the thread.
\* Otherwise the payload is printed under the lock.
M_Build(i) ==
    /\ Running("motilal", i)
    /\ wpc["motilal"][i] = "build"
    /\ IF PayloadRaises(req.order)
       THEN wpc' = [wpc EXCEPT !["motilal"][i] = "dead"]
       ELSE /\ LockFree("motilal")
            /\ wpc' = [wpc EXCEPT !["motilal"][i] = "call"]
    /\ UNCHANGED <<routerVars, mainVars, pend, bresp, lock, responses,
                   sessions, placed, sessReaders, sessWriters>>
    /\ UNCHANGED <<modVars, extVars>>

\* sdk.PlaceOrder(payload) inside try/except
M_Call(i) ==
    /\ Running("motilal", i)
    /\ wpc["motilal"][i] = "call"
    /\ \E out \in MoOutcomes :
          /\ bresp' = [bresp EXCEPT !["motilal"][i] = out]
          /\ pend' = [pend EXCEPT !["motilal"][i] =
                         MoResp(out, by_broker["motilal"][i])]
    /\ Send("motilal", by_broker["motilal"][i])
    /\ wpc' = [wpc EXCEPT !["motilal"][i] = "store"]
    /\ UNCHANGED <<routerVars, mainVars, lock, responses, sessions,
                   sessReaders, sessWriters>>
    /\ UNCHANGED <<modVars, extVars>>

-----------------------------------------------------------------------------
(* Specification *)

Next ==
    \/ R_Reject
    \/ R_Expand
    \/ \E b \in BrokerSet : R_SkipBroker(b)
    \/ \E b \in BrokerSet : R_CallAdapter(b)
    \/ \E b \in BrokerSet : R_AdapterFails(b)
    \/ \E b \in BrokerSet : A_Spawn(b)
    \/ \E b \in BrokerSet : A_Join(b)
    \/ \E b \in BrokerSet : A_Return(b)
    \/ \E b \in BrokerSet : \E i \in Workers(b) : W_Acquire(b, i)
    \/ \E b \in BrokerSet : \E i \in Workers(b) : W_Write(b, i)
    \/ \E i \in Workers("dhan") : D_Prepare(i)
    \/ \E i \in Workers("dhan") : D_Call(i)
    \/ \E i \in Workers("motilal") : M_Lookup(i)
    \/ \E i \in Workers("motilal") : M_LoginReturn(i)
    \/ \E i \in Workers("motilal") : M_Build(i)
    \/ \E i \in Workers("motilal") : M_Call(i)

Spec == Init /\ [][Next]_vars

-----------------------------------------------------------------------------
(* Dispatch under the scheduler's fairness *)

\* The steps that do not wait for a backend without a bound: the router's
\* and the threads' own steps (D_Prepare has its own condition below), and
\* Broker_dhan's requests.post, which its timeout=15 ends.  Broker_motilal's sdk.login and sdk.PlaceOrder are
\* called without a timeout and are not among them.
BoundedStep ==
    \/ R_Reject
    \/ R_Expand
    \/ \E b \in BrokerSet : R_SkipBroker(b)
    \/ \E b \in BrokerSet : R_CallAdapter(b)
    \/ \E b \in BrokerSet : R_AdapterFails(b)
    \/ \E b \in BrokerSet : A_Spawn(b)
    \/ \E b \in BrokerSet : A_Join(b)
    \/ \E b \in BrokerSet : A_Return(b)
    \/ \E b \in BrokerSet : \E i \in Workers(b) : W_Acquire(b, i)
    \/ \E b \in BrokerSet : \E i \in Workers(b) : W_Write(b, i)
    \/ \E i \in Workers("dhan") : D_Call(i)
    \/ \E i \in Workers("motilal") : M_Lookup(i)
    \/ \E i \in Workers("motilal") : M_Build(i)

\* A Broker_dhan worker that has started and not yet run its checks.
PrepareEnabled ==
    \E i \in Workers("dhan") : Running("dhan", i) /\ wpc["dhan"][i] = "ready"

\* Weak fairness of D_Prepare, its enabling condition written out.
FairPrepare ==
    \/ []<>~PrepareEnabled
    \/ []<><<\E i \in Workers("dhan") : D_Prepare(i)>>_vars

SpecFair == Init /\ [][Next]_vars /\ WF_vars(BoundedStep) /\ FairPrepare

-----------------------------------------------------------------------------

(* Modify path: values shared by route_modify_order and both modify_orders *)

s_NO_CHANGE       == <<"N", "O", "_", "C", "H", "A", "N", "G", "E">>
s_SL_LIMIT        == <<"S", "L", "_", "L", "I", "M", "I", "T">>
s_SL_MARKET       == <<"S", "L", "_", "M", "A", "R", "K", "E", "T">>
s_SL_L            == <<"S", "L", "_", "L">>
s_SL_M            == <<"S", "L", "_", "M">>
s_SL_dash_M       == <<"S", "L", "-", "M">>
s_STOPLOSS_LIMIT  == <<"S", "T", "O", "P", "L", "O", "S", "S", "_", "L", "I", "M", "I", "T">>
s_STOPLOSS_MARKET == <<"S", "T", "O", "P", "L", "O", "S", "S", "_", "M", "A", "R", "K", "E", "T">>

\* Python's None, and a number that is there.  None also stands for the
\* string that is None or "".
None == <<>>
Some(v) == <<v>>

\* x or y, for numbers
PyOr(x, y) == IF x = None \/ x = Some(0) THEN y ELSE x

\* dict.get(key, default) on a dict given as <<key, value>> pairs
Lookup(table, key, default) ==
    LET hit == {p \in table : p[1] = key}
    IN  IF hit = {} THEN default ELSE (CHOOSE p \in hit : TRUE)[2]

Digits == {"0", "1", "2", "3", "4", "5", "6", "7", "8", "9"}

Letters == DOMAIN UpperTable \cup {UpperTable[c] : c \in DOMAIN UpperTable}

\* str.isdigit()
IsDigit(s) == s # <<>> /\ \A i \in 1..Len(s) : s[i] \in Digits

\* any(c.isalpha() for c in s)
HasAlpha(s) == \E i \in 1..Len(s) : s[i] \in Letters

-----------------------------------------------------------------------------
(* route_modify_order: helpers *)

\* The dict m of _map_ui_to_dhan.
MapUiToDhan ==
    { <<s_LIMIT, s_LIMIT>>, <<s_MARKET, s_MARKET>>,
      <<s_STOPLOSS, s_STOP_LOSS>>, <<s_SL_LIMIT, s_STOP_LOSS>>,
      <<s_SL, s_STOP_LOSS>>, <<s_STOP_LOSS, s_STOP_LOSS>>,
      <<s_SL_MARKET, s_STOP_LOSS_MARKET>>,
      <<s_STOPLOSS_MARKET, s_STOP_LOSS_MARKET>>,
      <<s_STOP_LOSS_MARKET, s_STOP_LOSS_MARKET>>,
      <<s_NO_CHANGE, None>>, <<<<>>, None>> }

_map_ui_to_dhan(ui) ==
    IF ui = <<>> THEN None
    ELSE Lookup(MapUiToDhan, ReplaceChar(Upper(ui), "-", "_"), None)

\* has_p / has_t: the value is not None (0.0 counts as a value)
_guess_from_values(price, trig) ==
    LET has_p == price # None
        has_t == trig # None
    IN  IF has_t /\ has_p THEN s_STOP_LOSS
        ELSE IF has_t /\ ~has_p THEN s_STOP_LOSS_MARKET
        ELSE IF has_p /\ ~has_t THEN s_LIMIT
        ELSE s_MARKET

\* _guess_broker_from_order: the last return calls _broker_by_client_name,
\* a name the module does not define (its def is commented out).
_guess_broker_from_order(oid) ==
    IF IsDigit(oid) THEN "dhan"
    ELSE IF HasAlpha(oid) THEN "motilal"
    ELSE "NameError"

\* _fetch_dhan_order_snapshot: the row of Broker_dhan.get_orders() with this
\* order id, or None.  The row carries name, symbol, transaction_type,
\* quantity, price, status and order_id.
_fetch_dhan_order_snapshot(live) == IF live.at = "none" THEN None ELSE Some(live)

\* _snap_qty: the first positive quantity field of the snapshot
_snap_qty(snap) ==
    IF snap = None THEN None
    ELSE IF snap[1].qty > 0 THEN Some(snap[1].qty) ELSE None

\* The three "explicit validations" of the bucket loop.
ModifyRejects(ot_dhan, p, trg) ==
    \/ ot_dhan = s_LIMIT /\ (p = None \/ p[1] <= 0)
    \/ ot_dhan = s_STOP_LOSS
         /\ ((p = None \/ p[1] <= 0) \/ (trg = None \/ trg[1] <= 0))
    \/ ot_dhan = s_STOP_LOSS_MARKET /\ (trg = None \/ trg[1] <= 0)

\* A row that is not handed to an adapter.
NoRow ==
    [rid |-> 0, name |-> "", order_id |-> <<>>, quantity |-> None,
     price |-> None, triggerPrice |-> None, orderType |-> <<>>]

\* One pass of the bucket loop for the order at position rid: what becomes of
\* it (skip, dhan, motilal, or raise) and the row appended to the bucket.
ModifyRow(od, rid) ==
    LET oid == Strip(od.order_id)
        brk == _guess_broker_from_order(oid)
        p == od.price
        trg == PyOr(od.triggerprice, None)
        ot_ui == Upper(IF od.orderType = <<>> THEN s_NO_CHANGE
                       ELSE od.orderType)
        ot_dhan == _map_ui_to_dhan(ot_ui)
        ot_final == IF ot_dhan # None THEN ot_dhan
                    ELSE _guess_from_values(p, trg)
        snap == IF brk = "dhan"
                   /\ (od.quantity = None \/ ot_ui \in {<<>>, s_NO_CHANGE})
                THEN _fetch_dhan_order_snapshot(od.live) ELSE None
        q == IF od.quantity = None /\ brk = "dhan" THEN _snap_qty(snap)
             ELSE od.quantity
        row_common ==
            [rid |-> rid, name |-> od.name, order_id |-> oid, quantity |-> q,
             price |-> p, triggerPrice |-> trg, orderType |-> <<>>]
    IN  IF oid = <<>> THEN [fate |-> "skip", row |-> NoRow]
        ELSE IF brk = "NameError" THEN [fate |-> "raise", row |-> NoRow]
        ELSE IF ot_dhan # None /\ ModifyRejects(ot_dhan, p, trg)
             THEN [fate |-> "skip", row |-> NoRow]
        ELSE IF brk = "dhan"
             THEN [fate |-> "dhan",
                   row |-> [row_common EXCEPT
                               !.orderType = ot_final,
                               !.quantity = IF q = None THEN Some(0) ELSE q]]
        ELSE [fate |-> "motilal",
              row |-> [row_common EXCEPT
                          !.orderType = IF ot_ui # <<>> THEN ot_ui
                                        ELSE s_NO_CHANGE]]

\* The fate of every order of the request, in order.
ModifyRows(orders) == [i \in 1..Len(orders) |-> ModifyRow(orders[i], i)]

\* by_broker[brk] after the bucket loop
ModBucket(fates, brk) ==
    LET mine == SelectSeq(fates, LAMBDA f : f.fate = brk)
    IN  [i \in 1..Len(mine) |-> mine[i].row]

\* messages.extend(skipped): one note per skipped order
SkipNotes(fates) ==
    LET idx == SelectSeq([i \in 1..Len(fates) |-> i],
                         LAMBDA i : fates[i].fate = "skip")
    IN  [k \in 1..Len(idx) |-> [rid |-> idx[k], kind |-> "skipped"]]

-----------------------------------------------------------------------------
(* Broker_dhan: _build_dhan_modify_payload and modify_orders *)

\* not None and not zero
_has_value(x) == x # None /\ x # Some(0)

_infer_type_local(price, trig) ==
    LET has_p == _has_value(price)
        has_t == _has_value(trig)
    IN  IF has_t /\ has_p THEN s_STOP_LOSS
        ELSE IF has_t /\ ~has_p THEN s_STOP_LOSS_MARKET
        ELSE IF has_p /\ ~has_t THEN s_LIMIT
        ELSE s_MARKET

\* The dict ot_map of _build_dhan_modify_payload.
DhanOtMap ==
    { <<s_LIMIT, s_LIMIT>>, <<s_MARKET, s_MARKET>>,
      <<s_STOPLOSS, s_STOP_LOSS>>, <<s_STOP_LOSS, s_STOP_LOSS>>,
      <<s_SL, s_STOP_LOSS>>, <<s_SL_LIMIT, s_STOP_LOSS>>,
      <<s_SL_MARKET, s_STOP_LOSS_MARKET>>,
      <<s_STOP_LOSS_MARKET, s_STOP_LOSS_MARKET>>,
      <<s_STOPLOSS_MARKET, s_STOP_LOSS_MARKET>>,
      <<s_NO_CHANGE, None>>, <<<<>>, None>> }

\* A payload without the keys that are left out: orderType None, quantity,
\* price and triggerPrice None mean the key is absent.  disclosedQuantity is
\* the literal 0 of the payload; lastmodifiedtime is Broker_motilal's echo
\* field, "" for Broker_dhan.
_build_dhan_modify_payload(row) ==
    LET price == row.price
        trig == row.triggerPrice
        ot_in == ReplaceChar(Upper(Strip(row.orderType)), "-", "_")
        mapped == Lookup(DhanOtMap, ot_in, ot_in)
        order_type ==
            IF mapped # None THEN mapped
            ELSE IF _has_value(price) \/ _has_value(trig)
                 THEN _infer_type_local(price, trig)
                 ELSE None
    IN  [orderType |-> order_type,
         quantity |-> IF _has_value(row.quantity) THEN row.quantity ELSE None,
         price |-> IF _has_value(price) THEN price ELSE None,
         triggerPrice |-> IF _has_value(trig) THEN trig ELSE None,
         disclosedQuantity |-> 0,
         lastmodifiedtime |-> ""]

\* modify_orders up to the PUT: the kind of the message that ends the row
\* early, or "send".
DhanModifyCheck(row, payload) ==
    IF row.order_id = <<>> \/ row.name \notin ClientDir("dhan")
       \/ ~HasSecret(row.name)
    THEN "missing"
    ELSE IF payload.orderType = s_LIMIT /\ payload.price = None
         THEN "invalid"
    ELSE IF payload.orderType = s_STOP_LOSS
            /\ (payload.price = None \/ payload.triggerPrice = None)
         THEN "invalid"
    ELSE IF payload.orderType = s_STOP_LOSS_MARKET
            /\ payload.triggerPrice = None
         THEN "invalid"
    ELSE "send"

\* if payload.get("quantity", 1) <= 0: payload.pop("quantity", None)
DhanPopQuantity(payload) ==
    IF payload.quantity # None /\ payload.quantity[1] <= 0
    THEN [payload EXCEPT !.quantity = None] ELSE payload

-----------------------------------------------------------------------------
(* Broker_motilal.modify_orders: helpers *)

\* x is not None and float(x) > 0
_pos(x) == x # None /\ x[1] > 0

\* strip().upper().replace("-", "_").replace(" ", "_")
MoNorm(ot) ==
    ReplaceChar(ReplaceChar(Upper(Strip(ot)), "-", "_"), " ", "_")

\* The dict m of _ui_to_mo.
UiToMo ==
    { <<s_LIMIT, s_LIMIT>>, <<s_MARKET, s_MARKET>>,
      <<s_STOP_LOSS, s_STOPLOSS>>, <<s_STOPLOSS, s_STOPLOSS>>,
      <<s_SL_LIMIT, s_STOPLOSS>>, <<s_SL, s_STOPLOSS>>,
      <<s_STOP_LOSS_MARKET, s_SL_dash_M>>,
      <<s_STOPLOSS_MARKET, s_SL_dash_M>>,
      <<s_SL_MARKET, s_SL_dash_M>> }

_ui_to_mo(ot) == Lookup(UiToMo, MoNorm(ot), None)

_snap_to_mo(ot) ==
    LET u == MoNorm(ot)
    IN  IF u \in {s_SL_LIMIT, s_SL_L, s_STOPLOSS_LIMIT} THEN s_STOPLOSS
        ELSE IF u \in {s_SL_MARKET, s_SL_M, s_STOPLOSS_MARKET}
             THEN s_SL_dash_M
        ELSE IF u \in {s_LIMIT, s_MARKET, s_STOPLOSS, s_SL_dash_M} THEN u
        ELSE None

\* The snapshot dict: ordertype, price, trig, qty, lastmod and token are the
\* values under the first key of each family the dict has; "", 0 and <<>>
\* stand for a family the dict lacks.
_infer_type_from_snapshot(s) ==
    LET t == _snap_to_mo(s.ordertype)
        has_p == _pos(Some(s.price))
        has_t == _pos(Some(s.trig))
    IN  IF t # None THEN t
        ELSE IF has_t /\ has_p THEN s_STOPLOSS
        ELSE IF has_t /\ ~has_p THEN s_SL_dash_M
        ELSE IF has_p /\ ~has_t THEN s_LIMIT
        ELSE s_MARKET

\* {}: what modify_orders works with when no snapshot was found
EmptySnapshot ==
    [at |-> "none", ordertype |-> <<>>, price |-> 0, trig |-> 0, qty |-> 0,
     lastmod |-> "", token |-> ""]

\* sdk.GetOrderDetails answers SUCCESS with the order, or not
_fetch_order_details(live) == IF live.at = "details" THEN Some(live) ELSE None

\* the row of sdk.GetOrderBook with this uniqueorderid, or None
_fetch_order_book_row(live) == IF live.at = "book" THEN Some(live) ELSE None

\* snap = _fetch_order_details(...); if not snap: snap = _fetch_order_book_row(...) or {}
FetchSnapshot(live) ==
    IF _fetch_order_details(live) # None THEN _fetch_order_details(live)[1]
    ELSE IF _fetch_order_book_row(live) # None
         THEN _fetch_order_book_row(live)[1]
    ELSE EmptySnapshot

\* now_ist_str(): the local clock
now_ist_str == "now"

_extract_last_mod(s) == IF s.lastmod # "" THEN s.lastmod ELSE now_ist_str

_extract_token(s) == s.token

_extract_orderqty(s) == IF _pos(Some(s.qty)) THEN Some(s.qty) ELSE None

\* [Security ID] -> [Min Qty] of symbols.db
min_qty_map == [t \in {"T50"} |-> 50]

\* max(1, int(min_qty_map.get(token, 1))) if token else 1
MinQty(token) ==
    IF token # "" /\ token \in DOMAIN min_qty_map
    THEN (IF min_qty_map[token] > 1 THEN min_qty_map[token] ELSE 1)
    ELSE 1

\* shares = qty_shares_in if _pos(qty_shares_in) else _extract_orderqty(snap) or 0
MoShares(qty_shares_in, snap) ==
    IF _pos(qty_shares_in) THEN qty_shares_in[1]
    ELSE PyOr(_extract_orderqty(snap), Some(0))[1]

\* Lots that passes the share quantity on as it is.
MoLotsUnconverted(shares, min_qty) == IF shares > 0 THEN shares ELSE 0

\* lots = int(shares // min_qty) if _pos(shares) else 0
MoLots(shares, min_qty) == IF shares > 0 THEN shares \div min_qty ELSE 0

\* The payload of sdk.ModifyOrder, keys that are left out as None.
MoPayload(row, snap) ==
    LET token == _extract_token(snap)
        lots == MoLots(MoShares(row.quantity, snap), MinQty(token))
        mapped == _ui_to_mo(row.orderType)
        ui_type == IF mapped # None THEN mapped
                   ELSE _infer_type_from_snapshot(snap)
    IN  [orderType |-> IF ui_type # None THEN ui_type ELSE s_MARKET,
         quantity |-> Some(lots),
         price |-> IF _pos(row.price) THEN row.price ELSE None,
         triggerPrice |-> IF _pos(row.triggerPrice) THEN row.triggerPrice
                          ELSE None,
         lastmodifiedtime |-> _extract_last_mod(snap)]

\* modify_orders up to sdk.ModifyOrder: the kind of the message that ends the
\* row early, or "send".  session says whether _ensure_session returned an SDK.
MoModifyCheck(row, payload, session) ==
    IF row.order_id = <<>> THEN "skipped"
    ELSE IF row.name \notin ClientDir("motilal") THEN "missing"
    ELSE IF ~session THEN "missing"
    ELSE IF payload.quantity[1] <= 0 THEN "invalid"
    ELSE IF payload.orderType = s_LIMIT /\ payload.price = None
         THEN "invalid"
    ELSE IF payload.orderType = s_STOPLOSS
            /\ ~(payload.price # None /\ payload.triggerPrice # None)
         THEN "invalid"
    ELSE IF payload.orderType = s_SL_dash_M /\ payload.triggerPrice = None
         THEN "invalid"
    ELSE "send"

-----------------------------------------------------------------------------
(* The modify request and the live orders it names *)

\* order_id: missing, a Dhan id, a Motilal id, and one that is neither all
\* digits nor has a letter
OrderIds ==
    { <<>>, <<"1", "0", "0", "1">>, <<"M", "O", "1">>,
      <<"1", "2", "-", "3", "4">> }

\* orderType as the caller writes it; <<>> is no orderType
UiTypes ==
    { <<>>, s_LIMIT, s_MARKET, s_STOPLOSS,
      <<"s", "l", "-", "m", "a", "r", "k", "e", "t">> }

Quantities  == {None, Some(0), Some(30), Some(100)}
ModPrices   == {None, Some(0 - 5), Some(0), Some(105)}
ModTriggers == {None, Some(0), Some(90)}

\* The order as Motilal's GetOrderDetails ("details") or only its
\* GetOrderBook ("book") shows it, or an order neither shows.
LiveMo ==
    {EmptySnapshot} \cup
    [at : {"details", "book"},
     ordertype : {<<>>, s_LIMIT, s_STOPLOSS, s_SL_dash_M},
     price : {0, 105}, trig : {0, 90}, qty : {0, 100},
     lastmod : {"", "t0"}, token : {"", "T50"}]

\* The order as a row of Broker_dhan.get_orders(), which carries quantity and
\* price but neither order type nor trigger, or an order it does not list.
LiveDhan ==
    {EmptySnapshot} \cup
    [at : {"book"}, ordertype : {<<>>}, price : {0, 105}, trig : {0},
     qty : {0, 100}, lastmod : {""}, token : {""}]

\* A resting limit order at 105 for 100 shares of an instrument with lot 50.
PlainLive ==
    [at |-> "details", ordertype |-> s_LIMIT, price |-> 105, trig |-> 0,
     qty |-> 100, lastmod |-> "t0", token |-> "T50"]

\* Rows that re-price the plain order, for any order id and client name.
PlainRows ==
    [name : {"D1", "M1", "M0", "X"}, order_id : OrderIds,
     quantity : {Some(100)}, price : {Some(105)}, triggerprice : {None},
     orderType : {s_LIMIT}, live : {PlainLive}]

\* Every combination of caller fields and live order, for a client with
\* credentials.
VariedRows ==
    [name : {"D1"}, order_id : {<<"1", "0", "0", "1">>}, quantity : Quantities,
     price : ModPrices, triggerprice : ModTriggers, orderType : UiTypes,
     live : LiveDhan]
    \cup
    [name : {"M1"}, order_id : {<<"M", "O", "1">>}, quantity : Quantities,
     price : ModPrices, triggerprice : ModTriggers, orderType : UiTypes,
     live : LiveMo]

\* payload["orders"]: up to MaxModifyRows plain rows, or one varied row
ModifyRequests ==
    UNION {[1..k -> PlainRows] : k \in 0..MaxModifyRows}
    \cup {<<r>> : r \in VariedRows}

\* No place request is in progress.
PlaceIdle ==
    /\ rpc = "idle"
    /\ req = [groupacc |-> FALSE, clients |-> <<>>, groups |-> <<>>,
              order |-> PlainOrder]
    /\ cur = 1
    /\ per_client_orders = <<>>
    /\ skipped = <<>>
    /\ by_broker = [b \in BrokerSet |-> <<>>]
    /\ results = [b \in BrokerSet |-> "none"]
    /\ apc = [b \in BrokerSet |-> "idle"]
    /\ by_id = [b \in BrokerSet |-> {}]
    /\ started = [b \in BrokerSet |-> 0]
    /\ joined = [b \in BrokerSet |-> 0]
    /\ wpc = [b \in BrokerSet |-> <<>>]
    /\ pend = [b \in BrokerSet |-> <<>>]
    /\ bresp = [b \in BrokerSet |-> <<>>]
    /\ lock = [b \in BrokerSet |-> 0]
    /\ responses = [b \in BrokerSet |-> <<>>]
    /\ sessions = {}
    /\ placed = [b \in BrokerSet |-> <<>>]
    /\ sessReaders = {}
    /\ sessWriters = {}

InitModify ==
    /\ PlaceIdle
    /\ ExtIdle
    /\ mpc = "recv"
    /\ mreq \in ModifyRequests
    /\ mcur = 1
    /\ mod_by_broker = [b \in BrokerSet |-> <<>>]
    /\ messages = <<>>
    /\ adapter_messages = <<>>
    /\ mrow = 1
    /\ sent = <<>>

-----------------------------------------------------------------------------
(* route_modify_order *)

\* raise HTTPException(status_code=400, detail="No orders provided.")
MR_Reject ==
    /\ mpc = "recv"
    /\ mreq = <<>>
    /\ mpc' = "http400"
    /\ UNCHANGED <<mreq, mcur, mod_by_broker, messages, adapter_messages,
                   mrow, sent>>
    /\ UNCHANGED <<placeVars, extVars>>

\* The bucket loop reaches an order for which _guess_broker_from_order raises.
ModifyRaises(orders) ==
    \E i \in 1..Len(orders) : ModifyRow(orders[i], i).fate = "raise"

\* The NameError leaves the handler: the request fails as a whole.
MR_Raise ==
    /\ mpc = "recv"
    /\ mreq # <<>>
    /\ ModifyRaises(mreq)
    /\ mpc' = "http500"
    /\ UNCHANGED <<mreq, mcur, mod_by_broker, messages, adapter_messages,
                   mrow, sent>>
    /\ UNCHANGED <<placeVars, extVars>>

\* The bucket loop, and messages.extend of the skip notes.
MR_Bucket ==
    /\ mpc = "recv"
    /\ mreq # <<>>
    /\ ~ModifyRaises(mreq)
    /\ LET fates == ModifyRows(mreq)
       IN  /\ mod_by_broker' = [b \in BrokerSet |-> ModBucket(fates, b)]
           /\ messages' = SkipNotes(fates)
    /\ mpc' = "dispatch"
    /\ UNCHANGED <<mreq, mcur, adapter_messages, mrow, sent>>
    /\ UNCHANGED <<placeVars, extVars>>

\* On to Motilal after Dhan, or return {"message": messages}.
ModAdvance ==
    IF mcur = Len(BrokerOrder)
    THEN mpc' = "done" /\ mcur' = mcur
    ELSE mpc' = "dispatch" /\ mcur' = mcur + 1

\* if by_broker[brk]: is false
MR_SkipBroker(b) ==
    /\ mpc = "dispatch"
    /\ b = BrokerOrder[mcur]
    /\ mod_by_broker[b] = <<>>
    /\ ModAdvance
    /\ UNCHANGED <<mreq, mod_by_broker, messages, adapter_messages, mrow,
                   sent>>
    /\ UNCHANGED <<placeVars, extVars>>

\* res = modify_orders(by_broker[brk]): the adapter starts its loop
MR_CallAdapter(b) ==
    /\ mpc = "dispatch"
    /\ b = BrokerOrder[mcur]
    /\ mod_by_broker[b] # <<>>
    /\ mpc' = "in_adapter"
    /\ adapter_messages' = <<>>
    /\ mrow' = 1
    /\ UNCHANGED <<mreq, mcur, mod_by_broker, messages, sent>>
    /\ UNCHANGED <<placeVars, extVars>>

\* modify_orders returns {"message": messages}; messages.extend(res["message"])
MR_Collect(b) ==
    /\ mpc = "in_adapter"
    /\ b = BrokerOrder[mcur]
    /\ mrow > Len(mod_by_broker[b])
    /\ messages' = messages \o adapter_messages
    /\ ModAdvance
    /\ UNCHANGED <<mreq, mod_by_broker, adapter_messages, mrow, sent>>
    /\ UNCHANGED <<placeVars, extVars>>

-----------------------------------------------------------------------------
(* modify_orders of either adapter: one row of the loop *)

\* The modify call raises, or the backend accepts or refuses it.
ModifyOutcomes == {"exception", "modified", "refused"}

\* The row ends with one message; a row that passed the checks is sent first.
ModifyStep(b, row, verdict, payload) ==
    /\ IF verdict # "send"
       THEN /\ adapter_messages' =
                   Append(adapter_messages, [rid |-> row.rid, kind |-> verdict])
            /\ sent' = sent
       ELSE \E out \in ModifyOutcomes :
               /\ sent' = Append(sent, [broker |-> b, rid |-> row.rid,
                                        payload |-> payload])
               /\ adapter_messages' =
                      Append(adapter_messages, [rid |-> row.rid, kind |-> out])
    /\ mrow' = mrow + 1
    /\ UNCHANGED <<mpc, mreq, mcur, mod_by_broker, messages>>
    /\ UNCHANGED <<placeVars, extVars>>

\* Broker_dhan.modify_orders: requests.put(url, json=payload, timeout=20)
DH_ModifyRow ==
    /\ mpc = "in_adapter"
    /\ BrokerOrder[mcur] = "dhan"
    /\ mrow <= Len(mod_by_broker["dhan"])
    /\ LET row == mod_by_broker["dhan"][mrow]
           payload == _build_dhan_modify_payload(row)
       IN  ModifyStep("dhan", row, DhanModifyCheck(row, payload),
                      DhanPopQuantity(payload))

\* Broker_motilal.modify_orders: _ensure_session(cj) gives an SDK or None;
\* sdk.ModifyOrder(payload)
MO_ModifyRow ==
    /\ mpc = "in_adapter"
    /\ BrokerOrder[mcur] = "motilal"
    /\ mrow <= Len(mod_by_broker["motilal"])
    /\ LET row == mod_by_broker["motilal"][mrow]
           payload == MoPayload(row, FetchSnapshot(mreq[row.rid].live))
       IN  \E session \in {HasSecret(row.name), FALSE} :
               ModifyStep("motilal", row,
                          MoModifyCheck(row, payload, session), payload)

NextModify ==
    \/ MR_Reject
    \/ MR_Raise
    \/ MR_Bucket
    \/ \E b \in BrokerSet : MR_SkipBroker(b)
    \/ \E b \in BrokerSet : MR_CallAdapter(b)
    \/ \E b \in BrokerSet : MR_Collect(b)
    \/ DH_ModifyRow
    \/ MO_ModifyRow

SpecModify == InitModify /\ [][NextModify]_vars

-----------------------------------------------------------------------------
(* route_place_orders: quantities *)

\* The client ids, group selectors and quantities the requests are built of.
QtyClients == {"D1", "M1", "X"}
QtyGroupSel == GroupSel \cup {"alpha"}
QtyBases == {3, 10}

\* ci["name"]
ClientName(client_id) ==
    IF client_id = "D1" THEN "Edison : D1" ELSE client_id

\* nm.split(":")[0].strip(), for the names of ClientName
NameHead(nm) == IF nm = "Edison : D1" THEN "Edison" ELSE nm

\* The group documents on disk.  A multiplier is a number: num/den.
GroupDocs ==
    [g \in GroupFiles |->
        IF g = "g1"
        THEN [id |-> "g1", name |-> "Alpha",
              multiplier |-> [num |-> 2, den |-> 1]]
        ELSE [id |-> "g2", name |-> "",
              multiplier |-> [num |-> 3, den |-> 2]]]

\* .strip().lower(), for the names of GroupDocs
LowerName(nm) == IF nm = "Alpha" THEN "alpha" ELSE nm

\* The file a selector names: the file of that id, else the first document
\* whose name matches without regard to case, else "" (None).
_find_group_path(id_or_name) ==
    IF id_or_name \in GroupFiles THEN id_or_name
    ELSE LET hits == {g \in GroupFiles :
                         /\ GroupDocs[g].name # ""
                         /\ LowerName(GroupDocs[g].name) = LowerName(id_or_name)}
         IN  IF hits = {} THEN "" ELSE CHOOSE g \in hits : TRUE

\* x or y, for strings and for integers (None counts as "" and as 0)
OrStr(x, y) == IF x = "" THEN y ELSE x
OrInt(x, y) == IF x = 0 THEN y ELSE x

\* _get_min_qty_map(): security id -> max(1, lot size)
DhanMinQtyMap == {<<"110666", 25>>}

\* No helper named _lookup_min_qty* is defined, so the CSV map answers.
_min_qty_for(security_id_val) ==
    IF security_id_val = "" THEN 1
    ELSE Lookup(DhanMinQtyMap, security_id_val, 1)

QtyMaps(keys, q) == {{}} \cup {{<<k, q>>} : k \in keys}

QtyRequestsOf(nc, ng) ==
    LET settings ==
            [qtySelection : {"manual", "auto"}, diffQty : BOOLEAN,
             multiplier : BOOLEAN, quantityinlot : QtyBases,
             perClientQty : QtyMaps({"D1", "Edison"}, 5),
             perGroupQty : QtyMaps({"g1", "Alpha"}, 7),
             security_id : SecurityIds]
        With(st, ga, cl, gl) ==
            [groupacc |-> ga, clients |-> cl, groups |-> gl,
             qtySelection |-> st.qtySelection, diffQty |-> st.diffQty,
             multiplier |-> st.multiplier,
             quantityinlot |-> st.quantityinlot,
             perClientQty |-> st.perClientQty,
             perGroupQty |-> st.perGroupQty,
             security_id |-> st.security_id]
    IN  {With(st, FALSE, cl, <<>>) :
            st \in settings, cl \in TargetLists(QtyClients, nc)}
        \cup
        {With(st, TRUE, <<>>, gl) :
            st \in settings, gl \in TargetLists(QtyGroupSel, ng)}

QtyRequests == QtyRequestsOf(MaxTargets, MaxGroups)

\* A row carrying "_skip": True.
QtySkipRow(reason, client_id) ==
    [skip |-> TRUE, reason |-> reason, client_id |-> client_id,
     name |-> "", broker |-> "", tag |-> "", qty |-> 0, security_id |-> "",
     rid |-> 0]

\* _build_order(client_id, qty, tag), with the request's security id
QtyBuildOrder(r, client_id, qty, tag) ==
    IF client_id \notin DOMAIN client_index
    THEN QtySkipRow(<<"client_not_found">>, client_id)
    ELSE [skip |-> FALSE, reason |-> <<>>, client_id |-> client_id,
          name |-> ClientName(client_id),
          broker |-> client_index[client_id], tag |-> tag, qty |-> qty,
          security_id |-> r.security_id, rid |-> 0]

\* The quantity branches with the override looked at before "auto".
GroupQtyOverrideFirst(r, gdoc, gsel) ==
    LET gname == OrStr(OrStr(gdoc.name, gdoc.id), gsel)
        gkey == OrStr(gdoc.id, gname)
    IN  IF r.diffQty
        THEN OrInt(Lookup(r.perGroupQty, gkey, 0),
                   Lookup(r.perGroupQty, gname, 0))
        ELSE r.quantityinlot

\* q of a group member's row
GroupQty(r, gdoc, gsel) ==
    LET gname == OrStr(OrStr(gdoc.name, gdoc.id), gsel)
        gkey == OrStr(gdoc.id, gname)
        m == gdoc.multiplier
        \* int(gdoc.get("multiplier", 1) or 1)
        group_multiplier == IF m.num = 0 THEN 1 ELSE m.num \div m.den
    IN  IF r.qtySelection = "auto" THEN r.quantityinlot
        ELSE IF r.diffQty
             THEN OrInt(Lookup(r.perGroupQty, gkey, 0),
                        Lookup(r.perGroupQty, gname, 0))
        ELSE IF r.multiplier THEN r.quantityinlot * group_multiplier
        ELSE r.quantityinlot

\* q of a client's row
ClientQty(r, client_id) ==
    IF r.qtySelection = "auto" THEN r.quantityinlot
    ELSE IF r.diffQty THEN Lookup(r.perClientQty, client_id, 0)
    ELSE r.quantityinlot

\* The rows of one group with every member entry kept.
GroupRowsRepeated(r, gsel) ==
    LET gp == _find_group_path(gsel)
    IN  IF gp = ""
        THEN <<QtySkipRow(<<"group_file_missing", ":", gsel>>, "")>>
        ELSE LET gdoc == GroupDocs[gp]
                 members == GroupMembers(gp)
             IN  [i \in 1..Len(members) |->
                     QtyBuildOrder(r, members[i], GroupQty(r, gdoc, gsel),
                                   OrStr(OrStr(gdoc.name, gdoc.id), gsel))]

\* The rows of one group selector.
GroupRows(r, gsel) ==
    LET gp == _find_group_path(gsel)
    IN  IF gp = ""
        THEN <<QtySkipRow(<<"group_file_missing", ":", gsel>>, "")>>
        ELSE LET gdoc == GroupDocs[gp]
                 gname == OrStr(OrStr(gdoc.name, gdoc.id), gsel)
                 members == _member_ids(GroupMembers(gp), <<>>)
             IN  [i \in 1..Len(members) |->
                     QtyBuildOrder(r, members[i], GroupQty(r, gdoc, gsel),
                                   gname)]

RECURSIVE QtyExpandGroups(_, _)
QtyExpandGroups(r, groups) ==
    IF groups = <<>> THEN <<>>
    ELSE GroupRows(r, Head(groups)) \o QtyExpandGroups(r, Tail(groups))

QtyExpandClients(r) ==
    [i \in 1..Len(r.clients) |->
        QtyBuildOrder(r, r.clients[i], ClientQty(r, r.clients[i]), "")]

\* per_client_orders; rid is the row's position, the identity of the dict.
QtyExpand(r) ==
    LET rows == IF r.groupacc THEN QtyExpandGroups(r, r.groups)
                ELSE QtyExpandClients(r)
    IN  [i \in 1..Len(rows) |-> [rows[i] EXCEPT !.rid = i]]

\* The multiplication applied a second time.
LotQtyTwice(old_q, minq) ==
    old_q * (IF minq > 1 THEN minq ELSE 1) * (IF minq > 1 THEN minq ELSE 1)

\* new_q = old_q * max(1, int(minq))
LotQty(old_q, minq) == old_q * (IF minq > 1 THEN minq ELSE 1)

\* od["qty"] = new_q
LotRow(od) ==
    [od EXCEPT !.qty = LotQty(od.qty, _min_qty_for(od.security_id))]

InitQty ==
    /\ PlaceIdle
    /\ ModIdle
    /\ PureIdle
    /\ qpc = "recv"
    /\ qreq \in QtyRequests
    /\ qrows = <<>>
    /\ qby_broker = [b \in BrokerSet |-> <<>>]
    /\ dhan_quantity = <<>>

\* The expansion loop: a market order, which passes the two 400 checks.
Q_Expand ==
    /\ qpc = "recv"
    /\ qrows' = QtyExpand(qreq)
    /\ qpc' = "expanded"
    /\ UNCHANGED <<qreq, qby_broker, dhan_quantity, ppc, fn_arg, fn_ret>>
    /\ UNCHANGED <<placeVars, modVars>>

\* The bucket loop; skipped rows go to results["skipped"].
Q_Bucket ==
    /\ qpc = "expanded"
    /\ qby_broker' = [b \in BrokerSet |-> Bucket(qrows, b)]
    /\ qpc' = "bucketed"
    /\ UNCHANGED <<qreq, qrows, dhan_quantity, ppc, fn_arg, fn_ret>>
    /\ UNCHANGED <<placeVars, modVars>>

\* "DHAN: multiply qty by min_qty".  The rows of by_broker are the dicts of
\* per_client_orders, so the write shows in both lists.
Q_Lots ==
    /\ qpc = "bucketed"
    /\ qby_broker' = [qby_broker EXCEPT
                         !["dhan"] = [i \in DOMAIN @ |-> LotRow(@[i])]]
    /\ qrows' = [i \in DOMAIN qrows |->
                    IF ~qrows[i].skip /\ qrows[i].broker = "dhan"
                    THEN LotRow(qrows[i]) ELSE qrows[i]]
    /\ qpc' = "converted"
    /\ UNCHANGED <<qreq, dhan_quantity, ppc, fn_arg, fn_ret>>
    /\ UNCHANGED <<placeVars, modVars>>

\* Broker_dhan's worker of the next row, up to its payload: the "quantity"
\* it sends, or None when a check before the payload fails.
Q_DhanWorker ==
    /\ qpc = "converted"
    /\ Len(dhan_quantity) < Len(qby_broker["dhan"])
    /\ LET od == qby_broker["dhan"][Len(dhan_quantity) + 1]
           o == [PlainOrder EXCEPT !.security_id = od.security_id]
       IN  dhan_quantity' =
               Append(dhan_quantity,
                      IF DhanPrecheck(od, o, ClientDir("dhan")) = ""
                      THEN Some(od.qty) ELSE None)
    /\ UNCHANGED <<qpc, qreq, qrows, qby_broker, ppc, fn_arg, fn_ret>>
    /\ UNCHANGED <<placeVars, modVars>>

NextQty ==
    \/ Q_Expand
    \/ Q_Bucket
    \/ Q_Lots
    \/ Q_DhanWorker

SpecQty == InitQty /\ [][NextQty]_vars

-----------------------------------------------------------------------------

(* Helper functions called on their own *)

MaxShares == 6
MaxLot == 3

LowerChar(c) ==
    IF \E k \in DOMAIN UpperTable : UpperTable[k] = c
    THEN CHOOSE k \in DOMAIN UpperTable : UpperTable[k] = c
    ELSE c

\* str.lower()
Lower(s) == [i \in 1..Len(s) |-> LowerChar(s[i])]

\* Ways of writing a key of _norm_order_type's dict: lower case, words
\* capitalised, hyphens for underscores, blanks around it.
Capitalised(s) ==
    [i \in 1..Len(s) |->
        IF i = 1 \/ s[i - 1] = "_" THEN UpperChar(s[i]) ELSE LowerChar(s[i])]

Hyphened(s) == ReplaceChar(s, "_", "-")

SpellingsOf(key) ==
    LET cased == {key, Lower(key), Capitalised(key)}
    IN  cased \cup {Hyphened(c) : c \in cased}
        \cup {<<" ">> \o key \o <<" ">>}

\* Every spelling with the order type it is a spelling of.
Spellings ==
    UNION {{[text |-> t, type |-> p[2]] : t \in SpellingsOf(p[1])} :
              p \in NormTable}

\* Status texts of the brokers' order books.
Statuses ==
    { <<"P", "E", "N", "D", "I", "N", "G">>,
      <<"P", "e", "n", "d", "i", "n", "g">>,
      <<"T", "R", "A", "N", "S", "I", "T">>,
      <<"T", "R", "A", "D", "E", "D">>,
      <<"T", "r", "a", "d", "e", "d">>,
      <<"P", "A", "R", "T", "_", "T", "R", "A", "D", "E", "D">>,
      <<"T", "r", "a", "d", "e", " ", "P", "e", "n", "d", "i", "n", "g">>,
      <<"E", "X", "E", "C", "U", "T", "E", "D">>,
      <<"P", "a", "r", "t", " ", "E", "x", "e", "c", "u", "t", "e", "d">>,
      <<"R", "E", "J", "E", "C", "T", "E", "D">>,
      <<"R", "e", "j", "e", "c", "t">>,
      <<"E", "r", "r", "o", "r">>,
      <<"C", "A", "N", "C", "E", "L", "L", "E", "D">>,
      <<"C", "a", "n", "c", "e", "l">>,
      <<"C", "o", "n", "f", "i", "r", "m">>,
      <<"E", "X", "P", "I", "R", "E", "D">>,
      <<"S", "e", "n", "t">>,
      <<>> }

lit_pend    == <<"p", "e", "n", "d">>
lit_confirm == <<"c", "o", "n", "f", "i", "r", "m">>
lit_trade   == <<"t", "r", "a", "d", "e">>
lit_traded  == <<"t", "r", "a", "d", "e", "d">>
lit_executed == <<"e", "x", "e", "c", "u", "t", "e", "d">>
lit_reject  == <<"r", "e", "j", "e", "c", "t">>
lit_rejected == <<"r", "e", "j", "e", "c", "t", "e", "d">>
lit_error   == <<"e", "r", "r", "o", "r">>
lit_cancel  == <<"c", "a", "n", "c", "e", "l">>

\* Broker_dhan.get_orders: the bucket of a row with this status
DhanBucket(status) ==
    LET s == Lower(status)
    IN  IF Contains(lit_pend, s) THEN "pending"
        ELSE IF Contains(lit_trade, s) \/ s = lit_executed THEN "traded"
        ELSE IF Contains(lit_reject, s) \/ Contains(lit_error, s)
             THEN "rejected"
        ELSE IF Contains(lit_cancel, s) THEN "cancelled"
        ELSE "others"

\* Broker_motilal.get_orders: the bucket of a row with this status
MotilalBucket(status) ==
    LET s == Lower(status)
    IN  IF Contains(lit_confirm, s) THEN "pending"
        ELSE IF Contains(lit_traded, s) THEN "traded"
        ELSE IF Contains(lit_rejected, s) \/ Contains(lit_error, s)
             THEN "rejected"
        ELSE IF Contains(lit_cancel, s) THEN "cancelled"
        ELSE "others"

\* Access tokens of Broker_dhan clients: some differ in the middle only.
Tokens ==
    {<<"e", "y", "J", "0", "e", "X">> \o mid \o <<"k", "9", "Q", "w">> :
        mid \in {<<"a">>, <<"b">>, <<"a", "b">>}}

\* The calls: the function, and the arguments it takes.  ref is the symbol
\* reference of a place request: the third and fourth part of "symbol", and
\* the explicit id and token beside it.
Call(fn, text, type, price, trig, q, lot, ref) ==
    [fn |-> fn, text |-> text, type |-> type, price |-> price,
     triggerprice |-> trig, q |-> q, lot |-> lot, ref |-> ref]

NoRef == [third |-> "", fourth |-> "", explicit_id |-> "", explicit_tok |-> ""]

SymbolRefs ==
    [third : {"", "110666"}, fourth : {"", "17000"},
     explicit_id : {"", "220777"}, explicit_tok : {"", "18000"}]

Calls ==
    {Call("_norm_order_type", sp.text, sp.type, 0, 0, 0, 0, NoRef) :
        sp \in Spellings}
    \cup {Call("_needs", sp.text, sp.type, p, t, 0, 0, NoRef) :
             sp \in Spellings, p \in Prices, t \in Triggers}
    \cup {Call("modify_type", sp.text, sp.type, 0, 0, 0, 0, NoRef) :
             sp \in Spellings}
    \cup {Call("get_orders", st, <<>>, 0, 0, 0, 0, NoRef) : st \in Statuses}
    \cup {Call("lots", <<>>, <<>>, 0, 0, q, lot, NoRef) :
             q \in 1..MaxShares, lot \in 1..MaxLot}
    \cup {Call("close_positions", <<>>, <<>>, 0, 0, n, lot, NoRef) :
             n \in (0 - MaxShares)..MaxShares, lot \in 1..MaxLot}
    \cup {Call("symbol", <<>>, <<>>, 0, 0, 0, 0, ref) : ref \in SymbolRefs}
    \cup {Call("log", t1, t2, 0, 0, 0, 0, NoRef) : t1, t2 \in Tokens}

InitPure ==
    /\ PlaceIdle
    /\ ModIdle
    /\ QtyIdle
    /\ ppc = "called"
    /\ fn_arg \in Calls
    /\ fn_ret = <<>>

Return(v) ==
    /\ fn_ret' = v
    /\ ppc' = "returned"
    /\ UNCHANGED <<fn_arg, qpc, qreq, qrows, qby_broker, dhan_quantity>>
    /\ UNCHANGED <<placeVars, modVars>>

\* _norm_order_type(s), and _norm_order_type of what it returned
P_NormOrderType ==
    /\ ppc = "called"
    /\ fn_arg.fn = "_norm_order_type"
    /\ LET norm == _norm_order_type(fn_arg.text)
       IN  Return([norm |-> norm, again |-> _norm_order_type(norm)])

\* _needs_price(ot) and _needs_trigger(ot), as the worker calls them beside
\* the order's price and trigger
P_Needs ==
    /\ ppc = "called"
    /\ fn_arg.fn = "_needs"
    /\ Return([price |-> _needs_price(fn_arg.text),
               trigger |-> _needs_trigger(fn_arg.text)])

\* Broker_dhan.get_orders on an order-book row
P_DhanBucket ==
    /\ ppc = "called"
    /\ fn_arg.fn = "get_orders"
    /\ Return([broker |-> "dhan", bucket |-> DhanBucket(fn_arg.text)])

\* Broker_motilal.get_orders on an order-book row
P_MotilalBucket ==
    /\ ppc = "called"
    /\ fn_arg.fn = "get_orders"
    /\ Return([broker |-> "motilal", bucket |-> MotilalBucket(fn_arg.text)])

\* The two lot conversions one after the other, in both orders: Motilal's
\* shares // min_qty, and the router's qty * max(1, min_qty).
P_Lots ==
    /\ ppc = "called"
    /\ fn_arg.fn = "lots"
    /\ LET q == fn_arg.q
           lot == fn_arg.lot
       IN  Return([divided |-> MoLots(q, lot),
                   divided_multiplied |-> LotQty(MoLots(q, lot), lot),
                   multiplied |-> LotQty(q, lot),
                   multiplied_divided |-> MoLots(LotQty(q, lot), lot)])

\* abs(net_qty)
AbsQty(n) == IF n < 0 THEN 0 - n ELSE n

\* side = "SELL" if net_qty > 0 else "BUY"
CloseSide(n) == IF n > 0 THEN "SELL" ELSE "BUY"

\* Broker_dhan.close_positions on a position of net quantity n: no order
\* when it is flat, else a market order of abs(net_qty) shares.
DhanClose(n) ==
    IF n = 0 THEN None
    ELSE Some([side |-> CloseSide(n), quantity |-> AbsQty(n),
               shares |-> AbsQty(n)])

\* Broker_motilal.close_positions on a position of net quantity n whose
\* token has lot entry: min_qty = max(1, entry), lots = max(1, qty //
\* min_qty); "quantityinlot" is in lots of min_qty shares.
MotilalClose(n, entry) ==
    IF n = 0 THEN None
    ELSE LET qty == AbsQty(n)
             min_qty == IF entry > 1 THEN entry ELSE 1
             whole == qty \div min_qty
             lots == IF whole > 1 THEN whole ELSE 1
         IN  Some([side |-> CloseSide(n), quantity |-> lots,
                   shares |-> lots * min_qty])

P_DhanClose ==
    /\ ppc = "called"
    /\ fn_arg.fn = "close_positions"
    /\ Return([broker |-> "dhan", order |-> DhanClose(fn_arg.q)])

P_MotilalClose ==
    /\ ppc = "called"
    /\ fn_arg.fn = "close_positions"
    /\ Return([broker |-> "motilal",
               order |-> MotilalClose(fn_arg.q, fn_arg.lot)])

\* The order type of a modify row as route_modify_order maps it for
\* Broker_dhan and as Broker_motilal.modify_orders maps it, beside what
\* placement makes of the same token.
P_ModifyType ==
    /\ ppc = "called"
    /\ fn_arg.fn = "modify_type"
    /\ Return([place |-> _norm_order_type(fn_arg.text),
               dhan |-> _map_ui_to_dhan(fn_arg.text),
               motilal |-> _ui_to_mo(fn_arg.text)])

\* int(x or 0) of an identifier: the number written out, "0" for "".
IntOfId(x) == IF x = "" THEN "0" ELSE IF IsNumeric(x) THEN x ELSE "ValueError"

\* route_place_orders' symbol parsing, the row _build_order makes of it, and
\* the identifier each adapter's worker puts in its payload: Broker_dhan's
\* "securityId" and Broker_motilal's "symboltoken".
P_Symbol ==
    /\ ppc = "called"
    /\ fn_arg.fn = "symbol"
    /\ LET ref == fn_arg.ref
           security_id == OrStr(ref.third, ref.explicit_id)
           symboltoken == OrStr(ref.fourth, ref.explicit_tok)
           od == [security_id |-> security_id, symboltoken |-> symboltoken]
       IN  Return([od |-> od,
                   securityId |-> od.security_id,
                   mo_symboltoken |-> IntOfId(od.security_id)])

\* s[:n] and s[-n:]
Prefix(s, n) == SubSeq(s, 1, IF n < Len(s) THEN n ELSE Len(s))
Suffix(s, n) == SubSeq(s, IF n < Len(s) THEN Len(s) - n + 1 ELSE 1, Len(s))

\* f"{token[:6]}...{token[-4:]}" if token else ""
safe_token(token) ==
    IF token = <<>> THEN <<>>
    ELSE Prefix(token, 6) \o <<".", ".", ".">> \o Suffix(token, 4)

\* What each path prints of a client's token, for the two clients of the
\* call (text and type hold their tokens).  Broker_dhan's place worker
\* prints safe_token; _dispatch_login prints json.dumps(client), and
\* route_modify_order prints the Dhan bucket whose rows hold _client_json:
\* both print the "apikey" value as it is.
Printed(path, token) ==
    IF path = "place" THEN safe_token(token) ELSE token

P_Log ==
    /\ ppc = "called"
    /\ fn_arg.fn = "log"
    /\ \E path \in {"place", "login", "modify"} :
          Return([path |-> path,
                  lines1 |-> Printed(path, fn_arg.text),
                  lines2 |-> Printed(path, fn_arg.type)])

NextPure ==
    \/ P_NormOrderType
    \/ P_Log
    \/ P_Symbol
    \/ P_ModifyType
    \/ P_Needs
    \/ P_DhanBucket
    \/ P_MotilalBucket
    \/ P_Lots
    \/ P_DhanClose
    \/ P_MotilalClose

SpecPure == InitPure /\ [][NextPure]_vars

-----------------------------------------------------------------------------

(* Properties of dispatch *)

Range(s) == {s[i] : i \in DOMAIN s}

Returned(b) == apc[b] = "returned"

KeyOf(b, i) == Key(b, by_broker[b][i])

DistinctKeys(b) ==
    \A i, j \in Workers(b) : i # j => KeyOf(b, i) # KeyOf(b, j)

\* Status of the entry a backend answer is stored as.
AnswerStatus(out) ==
    CASE out = "json" -> "success"
      [] out = "text" -> "_raw"
      [] out = "answer" -> "SUCCESS"

\* The entry under row i's key is the answer to row i's own call.
HoldsOwnAnswer(b, i) ==
    /\ bresp[b][i] \in {"json", "text", "answer"}
    /\ KeyOf(b, i) \in DOMAIN responses[b]
    /\ responses[b][KeyOf(b, i)].status = AnswerStatus(bresp[b][i])
    /\ responses[b][KeyOf(b, i)].ref = by_broker[b][i].rid

HoldsError(b, i) ==
    /\ KeyOf(b, i) \in DOMAIN responses[b]
    /\ responses[b][KeyOf(b, i)].status = "ERROR"

\* C1: failure isolation.  When place_orders has returned for a batch of N
\* rows with pairwise distinct keys in which the broker call of some row
\* raised, order_responses has exactly N keys, each row whose call raised has
\* an ERROR entry, and each row whose call returned holds exactly the answer
\* to its own call.
C1_FailureIsolation ==
    \A b \in BrokerSet :
        ( /\ Returned(b)
          /\ DistinctKeys(b)
          /\ \E i \in Workers(b) : bresp[b][i] = "raise" )
        => /\ Cardinality(DOMAIN responses[b]) = Len(by_broker[b])
           /\ \A i \in Workers(b) :
                 /\ bresp[b][i] = "raise" => HoldsError(b, i)
                 /\ bresp[b][i] \notin {"none", "raise"} => HoldsOwnAnswer(b, i)

\* A returned two-row batch: one call raised, the other one was answered.
C1_Witness ==
    \E b \in BrokerSet :
        /\ Returned(b)
        /\ DistinctKeys(b)
        /\ \E i, j \in Workers(b) :
              /\ bresp[b][i] = "raise"
              /\ bresp[b][j] \notin {"none", "raise"}
              /\ HoldsOwnAnswer(b, j)

\* C2: one response per requested row.  When the place-orders call has
\* returned, the skipped entries and the keys of the brokers' order_responses
\* together number the expanded rows.
C2_OneResponsePerRow ==
    rpc = "done" =>
        Len(skipped) + Cardinality(DOMAIN responses["dhan"])
                     + Cardinality(DOMAIN responses["motilal"])
            = Len(per_client_orders)

\* C3: fan-in.  Once place_orders has returned, every worker it started has
\* terminated, and the result map it returned never changes again.
C3_FanIn ==
    /\ [](\A b \in BrokerSet :
             Returned(b) => \A i \in Workers(b) : wpc[b][i] \in Terminated)
    /\ [][\A b \in BrokerSet :
             Returned(b) => responses'[b] = responses[b]]_vars

\* place_orders has returned a batch of two rows whose workers both stored
\* an entry.
C3_Witness ==
    \E b \in BrokerSet :
        /\ Returned(b)
        /\ Len(by_broker[b]) >= 2
        /\ \A i \in Workers(b) : wpc[b][i] = "done"
        /\ Cardinality(DOMAIN responses[b]) >= 2

\* C4: mutual exclusion on the result map.  A worker inside the with-lock
\* block holds the batch's lock, at most one worker is inside it, and every
\* change of order_responses is the write of the worker holding the lock.
C4_MutualExclusion ==
    /\ [](\A b \in BrokerSet :
             /\ \A i \in DOMAIN wpc[b] : wpc[b][i] = "locked" => lock[b] = i
             /\ Cardinality({i \in DOMAIN wpc[b] : wpc[b][i] = "locked"}) <= 1)
    /\ [][\A b \in BrokerSet :
             responses'[b] # responses[b] =>
                 /\ lock[b] \in Workers(b)
                 /\ wpc[b][lock[b]] = "locked"
                 /\ wpc'[b][lock[b]] = "done"
                 /\ DOMAIN responses'[b] =
                        DOMAIN responses[b] \cup {KeyOf(b, lock[b])}
                 /\ \A k \in DOMAIN responses[b] \ {KeyOf(b, lock[b])} :
                        responses'[b][k] = responses[b][k]]_vars

\* One worker is inside the with-lock block while a sibling waits to store.
C4_Witness ==
    \E b \in BrokerSet : \E i, j \in DOMAIN wpc[b] :
        /\ wpc[b][i] = "locked"
        /\ lock[b] = i
        /\ wpc[b][j] = "store"

\* C5: the result map is the only state written by more than one worker of
\* a batch.  The session table, which every Broker B worker reads, is written
\* by at most one worker of the batch.
C5_OnlyResultMapShared ==
    Cardinality(sessWriters) <= 1

\* C6: row independence.  When place_orders has returned, the entry recorded
\* under a row's key is the outcome of that row's own worker.
C6_RowIndependence ==
    \A b \in BrokerSet :
        Returned(b) =>
            \A i \in Workers(b) :
                wpc[b][i] = "done" =>
                    /\ KeyOf(b, i) \in DOMAIN responses[b]
                    /\ responses[b][KeyOf(b, i)] = pend[b][i]

\* C7: at most one order per expanded row.  Over both backends together, no
\* expanded row has caused more than one place-order call.
C7_AtMostOneOrderPerRow ==
    \A r \in 1..Len(per_client_orders) :
        placed["dhan"][r] + placed["motilal"][r] <= 1

\* The request is done, it had two rows, and each caused one call even
\* though one of the calls raised.
C7_Witness ==
    /\ rpc = "done"
    /\ Len(per_client_orders) >= 2
    /\ \A r \in 1..Len(per_client_orders) :
          placed["dhan"][r] + placed["motilal"][r] = 1
    /\ \E b \in BrokerSet : \E i \in Workers(b) : bresp[b][i] = "raise"

\* The rows of the expansion whose target is a client id without a file.
NotFoundRows ==
    {r \in 1..Len(per_client_orders) :
        /\ per_client_orders[r].client_id \notin DOMAIN client_index
        /\ per_client_orders[r].client_id \in ClientIds}

\* The worker of broker b that was handed expanded row r, if any.
WorkersOf(b, r) == {i \in Workers(b) : by_broker[b][i].rid = r}

\* C8: client not found.  Every target of the request has its row; the row
\* of a client id that is not in the client index is marked skipped with
\* reason client_not_found, is in the skipped list, is handed to no adapter
\* and causes no place-order call; every other client row is in its broker's
\* bucket, and by the time the request is done that broker's adapter has run
\* it, unless the dispatch to that broker failed as a whole.
C8_ClientNotFound ==
    rpc \in {"dispatch", "in_adapter", "done"} =>
        /\ ~req.groupacc =>
              /\ Len(per_client_orders) = Len(req.clients)
              /\ \A k \in 1..Len(req.clients) :
                    per_client_orders[k].client_id = req.clients[k]
        /\ \A r \in NotFoundRows :
              /\ per_client_orders[r].skip
              /\ per_client_orders[r].reason = <<"client_not_found">>
              /\ per_client_orders[r] \in Range(skipped)
              /\ \A b \in BrokerSet :
                    /\ WorkersOf(b, r) = {}
                    /\ placed[b][r] = 0
        /\ \A r \in (1..Len(per_client_orders)) \ NotFoundRows :
              per_client_orders[r].client_id \in ClientIds =>
                  LET b == client_index[per_client_orders[r].client_id]
                  IN  /\ Cardinality(WorkersOf(b, r)) = 1
                      /\ rpc = "done" =>
                            \/ results[b] = "error"
                            \/ /\ results[b] = "completed"
                               /\ \A i \in WorkersOf(b, r) :
                                     wpc[b][i] \in Terminated

\* The request is done: one target had no client file and was skipped, while
\* another target's order was placed.
C8_Witness ==
    /\ rpc = "done"
    /\ NotFoundRows # {}
    /\ \E r \in 1..Len(per_client_orders) : \E b \in BrokerSet :
          /\ placed[b][r] = 1
          /\ \E i \in WorkersOf(b, r) : HoldsOwnAnswer(b, i)

\* Row i of batch b belongs to a client without usable secret material: the
\* adapter found no client record, or the record holds no secret.
MissingCredential(b, i) ==
    \/ by_broker[b][i].client_id \notin by_id[b]
    \/ by_broker[b][i].client_id \in NoSecretClients

PolicyViolation(o) ==
    \/ _needs_price(o.ordertype) /\ o.price <= 0
    \/ _needs_trigger(o.ordertype) /\ o.triggerprice <= 0

\* C10: placement validation failures are row-scoped.  A request with at
\* least one target whose price/trigger violates the order type's policy is
\* never aborted as a whole; when it is done every row handed to an adapter
\* holds a structured ERROR entry.
C10_ValidationRowScoped ==
    (PolicyViolation(req.order) /\ req.clients \o req.groups # <<>>) =>
        /\ rpc # "http400"
        /\ rpc = "done" =>
              \A b \in BrokerSet : \A i \in Workers(b) : HoldsError(b, i)

\* C11: no place-order call reaches either backend for a row whose
\* canonical order type requires a price while the price is <= 0, or requires
\* a trigger price while the trigger is <= 0, for every accepted synonym of
\* the order type and for both brokers.
C11_NoCallOnPolicyViolation ==
    PolicyViolation(req.order) =>
        \A b \in BrokerSet : \A r \in DOMAIN placed[b] : placed[b][r] = 0

\* C12: broker-level failures do not abort the batch.  When dispatch of a
\* non-empty bucket does not enter the adapter (the adapter is missing or the
\* dispatch raises), the handler records an error for that broker and goes on
\* to the next broker or returns; a finished request has a result for every
\* broker with rows, and a completed broker next to a failed one has
\* returned its responses.
C12_BrokerFailureIsolated ==
    /\ [][ ( /\ rpc = "dispatch"
             /\ by_broker[BrokerOrder[cur]] # <<>>
             /\ rpc' # "in_adapter" )
           => /\ results'[BrokerOrder[cur]] = "error"
              /\ rpc' = IF cur = Len(BrokerOrder) THEN "done" ELSE "dispatch"
              /\ cur' = IF cur = Len(BrokerOrder) THEN cur ELSE cur + 1 ]_vars
    /\ [](rpc = "done" =>
            \A b \in BrokerSet :
                by_broker[b] # <<>> =>
                    \/ results[b] = "error"
                    \/ results[b] = "completed" /\ Returned(b))

\* One broker's dispatch failed, the other broker's rows were sent and the
\* request is done.
C12_Witness ==
    /\ rpc = "done"
    /\ results["dhan"] = "error"
    /\ results["motilal"] = "completed"
    /\ \E r \in DOMAIN placed["motilal"] : placed["motilal"][r] > 0
    /\ \E k \in DOMAIN responses["motilal"] :
          responses["motilal"][k].status = "SUCCESS"

\* C13: result key format.  In both adapters the key under which a row's
\* outcome is stored is tag:clientId when the row carries a tag and the bare
\* clientId when it carries no tag.
C13_ResultKeyFormat ==
    \A b \in BrokerSet : \A i \in DOMAIN wpc[b] :
        wpc[b][i] = "done" =>
            LET od == by_broker[b][i]
                key == IF od.tag # "" THEN <<od.tag, ":", od.client_id>>
                       ELSE <<od.client_id>>
            IN  key \in DOMAIN responses[b]

-----------------------------------------------------------------------------
(* Properties of the modify path *)

\* The order of the request at position rid reaches Broker_motilal.
ToMotilal(rid) == ModifyRow(mreq[rid], rid).fate = "motilal"

\* The order of the request at position rid reaches Broker_dhan.
ToDhan(rid) == ModifyRow(mreq[rid], rid).fate = "dhan"

\* The modify calls made for the order at position rid.
CallsFor(rid) == {i \in DOMAIN sent : sent[i].rid = rid}

\* The messages about the order at position rid.
MessagesFor(rid) == {k \in DOMAIN messages : messages[k].rid = rid}

\* C14: snapshot unavailable.  On the modify path, when neither the
\* single-order detail call nor the order-book scan yields a snapshot of the
\* order, the row fails with an error message and no modify call is sent to
\* the broker, for every combination of caller-supplied fields.
C14_SnapshotUnavailable ==
    \A rid \in DOMAIN mreq :
        (ToMotilal(rid) /\ mreq[rid].live.at = "none") =>
            /\ CallsFor(rid) = {}
            /\ mpc = "done" =>
                  \E k \in MessagesFor(rid) :
                      messages[k].kind \in {"invalid", "missing"}

\* C15: echo fields are never fabricated.  Every modify payload sent to
\* Broker_motilal carries a lastmodifiedtime equal to a last-modified value
\* read from the snapshot fetched for that order; it is never a locally
\* generated timestamp.
C15_EchoNotFabricated ==
    \A i \in DOMAIN sent :
        sent[i].broker = "motilal" =>
            /\ mreq[sent[i].rid].live.lastmod # ""
            /\ sent[i].payload.lastmodifiedtime = mreq[sent[i].rid].live.lastmod
            /\ sent[i].payload.lastmodifiedtime # "now"

\* The four order types, whichever broker's enum names them.
TypeClass(t) ==
    CASE t = s_LIMIT -> "limit"
      [] t = s_MARKET -> "market"
      [] t \in {s_STOP_LOSS, s_STOPLOSS} -> "sl_limit"
      [] t \in {s_STOP_LOSS_MARKET, s_SL_dash_M} -> "sl_market"
      [] OTHER -> "none"

\* The type the live order's snapshot records or, if it records none, the
\* type implied by which of price and trigger it carries.
SnapshotType(live) ==
    IF TypeClass(live.ordertype) # "none" THEN TypeClass(live.ordertype)
    ELSE IF live.trig > 0 /\ live.price > 0 THEN "sl_limit"
    ELSE IF live.trig > 0 THEN "sl_market"
    ELSE IF live.price > 0 THEN "limit"
    ELSE "market"

\* C16: order-type inference on modify.  When the caller supplies no order
\* type, the final order type sent to the broker is the type recorded in the
\* order's snapshot or, if the snapshot records none, the type implied by
\* which of price/trigger are present in the snapshot, for orders of both
\* brokers.
C16_TypeInference ==
    \A i \in DOMAIN sent :
        LET od == mreq[sent[i].rid]
        IN  (od.orderType = <<>> /\ od.live.at # "none") =>
                TypeClass(sent[i].payload.orderType) = SnapshotType(od.live)

\* The order supplies a new quantity of at least one lot and nothing else,
\* for a live order whose snapshot is available and a client whose
\* credentials the adapter found.
QuantityOnly(rid) ==
    LET od == mreq[rid]
    IN  /\ od.quantity # None
        /\ od.quantity[1] >= MinQty(od.live.token)
        /\ od.price = None
        /\ od.triggerprice = None
        /\ od.orderType = <<>>
        /\ od.live.at # "none"
        /\ ToDhan(rid) \/ ToMotilal(rid)
        /\ \A k \in MessagesFor(rid) : messages[k].kind # "missing"

\* C17: unset fields mean no change.  A modify request that supplies only a
\* new quantity for a live order whose snapshot is available results in
\* exactly one modify call to the broker, and that call leaves the order's
\* type and price as recorded in the snapshot.
C17_UnsetMeansNoChange ==
    mpc = "done" =>
        \A rid \in DOMAIN mreq :
            QuantityOnly(rid) =>
                /\ Cardinality(CallsFor(rid)) = 1
                /\ \A i \in CallsFor(rid) :
                      /\ \/ sent[i].payload.orderType = None
                         \/ TypeClass(sent[i].payload.orderType)
                               = SnapshotType(mreq[rid].live)
                      /\ \/ sent[i].payload.price = None
                         \/ sent[i].payload.price[1] = mreq[rid].live.price

\* C18: validation before sending a modification.  No modify call reaches a
\* backend whose final order type is LIMIT without a price > 0,
\* stop-loss-limit without both price > 0 and trigger > 0, or
\* stop-loss-market without trigger > 0, whether the final type was supplied
\* by the caller or inferred.
C18_ModifyValidated ==
    \A i \in DOMAIN sent :
        LET pl == sent[i].payload
            c == TypeClass(pl.orderType)
            price_ok == pl.price # None /\ pl.price[1] > 0
            trigger_ok == pl.triggerPrice # None /\ pl.triggerPrice[1] > 0
        IN  /\ c = "limit" => price_ok
            /\ c = "sl_limit" => price_ok /\ trigger_ok
            /\ c = "sl_market" => trigger_ok

\* The share quantity modify_orders starts from: the caller's when positive,
\* otherwise the one the snapshot records.
SharesOf(od) ==
    IF od.quantity # None /\ od.quantity[1] > 0 THEN od.quantity[1]
    ELSE od.live.qty

\* C19 as stated: the quantity sent to the lot-quoting broker is the
\* caller-supplied share quantity converted to lots with the instrument's
\* minimum lot size when the caller supplied a positive quantity, and
\* otherwise the snapshot's recorded quantity; a row whose resulting quantity
\* is not positive is never sent.
C19_QuantityAsStated ==
    \A i \in DOMAIN sent :
        sent[i].broker = "motilal" =>
            LET od == mreq[sent[i].rid]
                quantity ==
                    IF od.quantity # None /\ od.quantity[1] > 0
                    THEN od.quantity[1] \div MinQty(od.live.token)
                    ELSE od.live.qty
            IN  /\ sent[i].payload.quantity = Some(quantity)
                /\ quantity > 0

\* C19: modify quantity derivation.  The quantity sent to the lot-quoting
\* broker is the share quantity (the caller's when positive, otherwise the
\* snapshot's recorded quantity) converted to lots with the instrument's
\* minimum lot size; a row whose resulting lots are not positive is rejected
\* with a message and never sent.
C19_QuantityDerivation ==
    /\ \A i \in DOMAIN sent :
          sent[i].broker = "motilal" =>
              LET od == mreq[sent[i].rid]
                  lots == SharesOf(od) \div MinQty(od.live.token)
              IN  /\ sent[i].payload.quantity = Some(lots)
                  /\ lots > 0
    /\ \A rid \in DOMAIN mreq :
          ( /\ ToMotilal(rid)
            /\ SharesOf(mreq[rid]) \div MinQty(mreq[rid].live.token) <= 0 )
          => /\ CallsFor(rid) = {}
             /\ mpc = "done" =>
                   \E k \in MessagesFor(rid) :
                       messages[k].kind \in {"invalid", "missing"}

\* A modify call went out for a row without a quantity of its own, carrying
\* the snapshot's 100 shares as 2 lots of 50.
C19_Witness ==
    \E i \in DOMAIN sent :
        /\ sent[i].broker = "motilal"
        /\ mreq[sent[i].rid].quantity \in {None, Some(0)}
        /\ mreq[sent[i].rid].live.qty = 100
        /\ mreq[sent[i].rid].live.token = "T50"
        /\ sent[i].payload.quantity = Some(2)

\* C20: one message per modify row.  For every modify request with n order
\* rows, the returned messages list contains exactly one message for each
\* row, whichever rows fail and whichever broker each row belongs to.
C20_OneMessagePerRow ==
    (mpc \in {"done", "http500"} /\ mreq # <<>>) =>
        /\ mpc = "done"
        /\ Len(messages) = Len(mreq)
        /\ \A rid \in DOMAIN mreq : Cardinality(MessagesFor(rid)) = 1

-----------------------------------------------------------------------------
(* Properties of the adapter boundary and of quantities *)

\* C21: adapter boundary.  No worker of place_orders is ended by an
\* exception: when place_orders has returned, every row's worker ran to its
\* end and the row's key has an entry, also when building the row's payload
\* failed.
C21_AdapterBoundary ==
    \A b \in BrokerSet :
        Returned(b) =>
            \A i \in Workers(b) :
                /\ wpc[b][i] # "dead"
                /\ KeyOf(b, i) \in DOMAIN responses[b]

\* The row of per_client_orders as the expansion loop appended it.
ResolvedRow(rid) == QtyExpand(qreq)[rid]

\* C22: lot conversion exactly once.  Every quantity a Broker_dhan worker
\* puts in a payload is the row's resolved quantity times the minimum lot
\* size of the row's instrument, also when one client has several rows.
C22_LotConversionOnce ==
    \A i \in DOMAIN dhan_quantity :
        dhan_quantity[i] # None =>
            LET od == qby_broker["dhan"][i]
            IN  dhan_quantity[i] =
                    Some(ResolvedRow(od.rid).qty
                         * _min_qty_for(od.security_id))

\* Two rows of one client on an instrument with a lot of 25, both sent.
C22_Witness ==
    /\ qreq.clients = <<"D1", "D1">>
    /\ _min_qty_for(qreq.security_id) = 25
    /\ Len(dhan_quantity) = 2
    /\ \A i \in 1..2 :
          dhan_quantity[i] = Some(ResolvedRow(i).qty * 25)
    /\ ResolvedRow(1).qty > 0

\* The branch of the quantity chain a request takes.
AutoPolicy(r) == r.qtySelection = "auto"
OverridePolicy(r) == ~AutoPolicy(r) /\ r.diffQty
MultiplierPolicy(r) ==
    ~AutoPolicy(r) /\ ~r.diffQty /\ r.groupacc /\ r.multiplier
ManualPolicy(r) ==
    ~AutoPolicy(r) /\ ~r.diffQty /\ ~(r.groupacc /\ r.multiplier)

Expanded == qpc = "expanded"

\* C24: group expansion with the multiplier policy.  Expanding one group
\* with k distinct members, base quantity b and group multiplier m > 0 under
\* the multiplier policy yields k rows, and each order row's quantity is
\* b x m.
C24_GroupMultiplier ==
    ( /\ Expanded
      /\ MultiplierPolicy(qreq)
      /\ Len(qreq.groups) = 1
      /\ _find_group_path(qreq.groups[1]) # "" )
    => LET g == _find_group_path(qreq.groups[1])
           m == GroupDocs[g].multiplier
       IN  /\ Len(qrows) = Cardinality(Range(GroupMembers(g)))
           /\ \A i \in DOMAIN qrows :
                 ~qrows[i].skip =>
                     qrows[i].qty * m.den = qreq.quantityinlot * m.num

\* _pick_qty_for_client(ci, per_client_qty, default_qty): the first of the
\* client id, the name and the name cut at ":" that is a key of the map.
_pick_qty_for_client(ci, per_client_qty, default_qty) ==
    LET nm == ci.name
        keys == <<ci.client_id>>
                \o (IF nm # "" THEN <<nm, NameHead(nm)>> ELSE <<>>)
        found == {i \in DOMAIN keys :
                     /\ keys[i] # ""
                     /\ \E p \in per_client_qty : p[1] = keys[i]}
    IN  IF found = {} THEN default_qty
        ELSE LET first == CHOOSE i \in found : \A j \in found : i <= j
             IN  Lookup(per_client_qty, keys[first], default_qty)

\* C25: override quantity policies.  Under the override policies every order
\* row's quantity is the override found by client id, else by display name,
\* else by the display name cut at the first ":", and the base quantity when
\* no key matches.
C25_OverrideLookup ==
    (Expanded /\ OverridePolicy(qreq)) =>
        \A i \in DOMAIN qrows :
            ~qrows[i].skip =>
                qrows[i].qty =
                    _pick_qty_for_client(
                        qrows[i],
                        IF qreq.groupacc THEN qreq.perGroupQty
                        ELSE qreq.perClientQty,
                        qreq.quantityinlot)

\* C26: manual and auto.  Under the manual and the auto policy every order
\* row's quantity is the request's base quantity, whatever override maps the
\* request carries and whatever multiplier the group has (and, under auto,
\* whatever the diffQty and multiplier flags say).
C26_BaseQuantity ==
    (Expanded /\ (ManualPolicy(qreq) \/ AutoPolicy(qreq))) =>
        \A i \in DOMAIN qrows :
            ~qrows[i].skip => qrows[i].qty = qreq.quantityinlot

\* An auto request for group g1 that also carries both flags and an override
\* for g1: its rows have the base quantity.
C26_Witness ==
    /\ Expanded
    /\ AutoPolicy(qreq) /\ qreq.diffQty /\ qreq.multiplier
    /\ qreq.groups = <<"g1">>
    /\ qreq.perGroupQty = {<<"g1", 7>>}
    /\ Len(qrows) = 2
    /\ \A i \in DOMAIN qrows : qrows[i].qty = qreq.quantityinlot

\* tag of the rows of group g: its name, its id when it has no name
GroupTag(g) == OrStr(GroupDocs[g].name, GroupDocs[g].id)

Returns(fn) == ppc = "returned" /\ fn_arg.fn = fn

\* C23 as stated: for every share count q >= 1 and lot size L >= 1, shares
\* to lots and then lots back to shares reproduces q.
C23_RoundTripAsStated ==
    Returns("lots") => fn_ret.divided_multiplied = fn_arg.q

\* C23: lot round trip.  For every q >= 1 and L >= 1, multiplying by the lot
\* size and then dividing reproduces q; dividing first and then multiplying
\* gives the largest multiple of L that is not above q, which is q exactly
\* when L divides q.
C23_RoundTrip ==
    Returns("lots") =>
        /\ fn_ret.multiplied_divided = fn_arg.q
        /\ fn_ret.divided_multiplied = fn_arg.q - (fn_arg.q % fn_arg.lot)

\* 5 shares and a lot of 3: 1 lot, 3 shares back; 15 shares, 5 back.
C23_Witness ==
    /\ Returns("lots")
    /\ fn_arg.q = 5 /\ fn_arg.lot = 3
    /\ fn_ret.divided = 1 /\ fn_ret.divided_multiplied = 3
    /\ fn_ret.multiplied = 15 /\ fn_ret.multiplied_divided = 5

\* The ordered rules on the lower-cased status text.
BucketRule(s) ==
    IF Contains(lit_pend, s) THEN "pending"
    ELSE IF Contains(lit_trade, s) \/ Contains(lit_executed, s) THEN "traded"
    ELSE IF Contains(lit_reject, s) \/ Contains(lit_error, s) THEN "rejected"
    ELSE IF Contains(lit_cancel, s) THEN "cancelled"
    ELSE "others"

\* C28: status classification.  Either broker's get_orders puts a row in the
\* bucket the ordered case-insensitive substring rules give for its status
\* text: "pend", else "trade" or "executed", else "reject" or "error", else
\* "cancel", else others.
C28_StatusBuckets ==
    Returns("get_orders") => fn_ret.bucket = BucketRule(Lower(fn_arg.text))

\* C29: needsPrice and needsTrigger depend on the order type alone.  For
\* every spelling of an order type and every price and trigger beside it,
\* _needs_price holds exactly for LIMIT and STOP_LOSS and _needs_trigger
\* exactly for STOP_LOSS and STOP_LOSS_MARKET.
C29_NeedsByType ==
    Returns("_needs") =>
        /\ fn_ret.price <=> fn_arg.type \in {s_LIMIT, s_STOP_LOSS}
        /\ fn_ret.trigger <=> fn_arg.type \in {s_STOP_LOSS, s_STOP_LOSS_MARKET}

\* "sl" beside a price of 100 and no trigger needs both; so the answer does
\* not come from the values.
C29_Witness ==
    /\ Returns("_needs")
    /\ fn_arg.text = <<"s", "l">>
    /\ fn_arg.price = 100 /\ fn_arg.triggerprice = 0
    /\ fn_ret.price /\ fn_ret.trigger

\* C30: order-type normalization is stable.  Every spelling of an order type
\* (any letter case, hyphen or underscore) normalizes to that type's enum,
\* and normalizing the result again returns it unchanged.
C30_NormStable ==
    Returns("_norm_order_type") =>
        /\ fn_ret.norm = fn_arg.type
        /\ fn_ret.again = fn_ret.norm

\* "Stop-Loss" becomes STOP_LOSS and stays STOP_LOSS.
C30_Witness ==
    /\ Returns("_norm_order_type")
    /\ fn_arg.text = <<"S", "t", "o", "p", "-", "L", "o", "s", "s">>
    /\ fn_ret.norm = s_STOP_LOSS
    /\ fn_ret.again = s_STOP_LOSS

\* The canonical type a Broker_motilal enum stands for.
MoCanonical(ot) ==
    IF ot = s_STOPLOSS THEN s_STOP_LOSS
    ELSE IF ot = s_SL_dash_M THEN s_STOP_LOSS_MARKET
    ELSE ot

\* C31: placement and modification agree on order-type synonyms.  Every
\* spelling placement maps to a canonical type is mapped to that type by
\* route_modify_order's _map_ui_to_dhan and by Broker_motilal's _ui_to_mo,
\* and neither of them reads it as "no change" (None).
C31_SynonymsAgree ==
    Returns("modify_type") =>
        /\ fn_ret.place = fn_arg.type
        /\ fn_ret.dhan # None /\ fn_ret.dhan = fn_ret.place
        /\ fn_ret.motilal # None /\ MoCanonical(fn_ret.motilal) = fn_ret.place

\* C32: broker-specific identifier.  The identifier in Broker_motilal's
\* payload is the symbol reference's fourth part, or the explicit token, and
\* the one in Broker_dhan's payload is its third part, or the explicit id.
C32_BrokerIdentifier ==
    Returns("symbol") =>
        LET ref == fn_arg.ref
            dhan_id == OrStr(ref.third, ref.explicit_id)
            motilal_id == OrStr(ref.fourth, ref.explicit_tok)
        IN  /\ dhan_id # "" => fn_ret.securityId = dhan_id
            /\ motilal_id # "" => fn_ret.mo_symboltoken = motilal_id

\* C33: secret redaction.  On the login, placement and modification paths
\* the printed lines do not contain a token in full, and they are the same
\* for two tokens that have the same first six and last four characters.
C33_SecretRedaction ==
    Returns("log") =>
        /\ ~Contains(fn_arg.text, fn_ret.lines1)
        /\ ( /\ Prefix(fn_arg.text, 6) = Prefix(fn_arg.type, 6)
             /\ Suffix(fn_arg.text, 4) = Suffix(fn_arg.type, 4) )
           => fn_ret.lines1 = fn_ret.lines2

\* C34: statelessness of the core.  When the place-orders call has returned,
\* the module-level state is what it was when the request came in:
\* Broker_motilal._sessions, empty then, is empty again.
C34_Stateless ==
    rpc = "done" => sessions = {}

\* C35: dispatch terminates.  Every place-orders call eventually returns,
\* whatever the backends do, the workers of both brokers included.
C35_DispatchTerminates ==
    <>(rpc \in {"done", "http400"})

\* C36: Broker A modify keeps the existing order type on "no change".  For a
\* Broker A modify request in which the caller requests no order-type change
\* and supplies no price and no trigger, the payload sent to the broker
\* carries no orderType field, and its disclosedQuantity is always the
\* number 0.
C36_DhanKeepsType ==
    \A i \in DOMAIN sent :
        sent[i].broker = "dhan" =>
            LET od == mreq[sent[i].rid]
            IN  /\ sent[i].payload.disclosedQuantity = 0
                /\ (od.orderType = <<>> /\ od.price = None
                    /\ od.triggerprice = None) =>
                        sent[i].payload.orderType = None

\* The part of C36 that the payloads do satisfy: disclosedQuantity.
DhanDisclosedZero ==
    \A i \in DOMAIN sent :
        sent[i].broker = "dhan" => sent[i].payload.disclosedQuantity = 0

\* C37: no order with a non-positive quantity is ever sent.  For every
\* place-orders request and every quantity policy, a row whose resolved
\* quantity is <= 0 (such as an override policy with no matching override
\* entry) causes no place-order call: every quantity Broker_dhan's worker
\* puts in a payload is positive.
C37_NoNonPositiveQuantity ==
    \A i \in DOMAIN dhan_quantity :
        dhan_quantity[i] # None => dhan_quantity[i][1] > 0

\* C38: square-off never over-closes.  For every position with non-zero net
\* quantity n and every minimum lot size L >= 1, the close-positions order
\* is on the opposite side of n and its quantity, expressed in shares, never
\* exceeds |n|; a position with n = 0 causes no order at all.
C38_NeverOverCloses ==
    Returns("close_positions") =>
        LET n == fn_arg.q
            order == fn_ret.order
        IN  IF n = 0 THEN order = None
            ELSE /\ order # None
                 /\ order[1].side = (IF n > 0 THEN "SELL" ELSE "BUY")
                 /\ order[1].shares <= AbsQty(n)

\* C38 for Broker_dhan's square-off alone.
DhanNeverOverCloses ==
    (Returns("close_positions") /\ fn_ret.broker = "dhan") =>
        LET n == fn_arg.q
            order == fn_ret.order
        IN  IF n = 0 THEN order = None
            ELSE /\ order # None
                 /\ order[1].side = (IF n > 0 THEN "SELL" ELSE "BUY")
                 /\ order[1].shares = AbsQty(n)

====
